---------------------------- MODULE Spec2Model ----------------------------
(***************************************************************************)
(* A model of node-symspell: the OSA edit-distance kernel                  *)
(* (src/edit-distance.js with the helpers listed in src/README.md), the    *)
(* symmetric-delete index (SymSpell.createDictionaryEntry, edits,          *)
(* editsPrefix) and the single-term lookup (SymSpell.lookup) of            *)
(* src/index.js.                                                           *)
(*                                                                         *)
(* Strings are sequences of one-character strings; JavaScript's 0-based    *)
(* index i is the sequence index i + 1.                                    *)
(***************************************************************************)
EXTENDS Integers, Sequences, FiniteSets, TLC

\* ------------------------------------------------------------------ bounds
\* Longest string (dictionary term, lookup input, distance argument).
MaxLen == 3

\* Letters strings are built from.
Alphabet == {"a", "b", "c"}

\* Number.MAX_SAFE_INTEGER, the value the counts saturate at.  The model
\* checker's integers are 32 bits wide, so the largest exactly representable
\* integer of the host numeric type is the largest integer of the checker.
MAX_SAFE_INTEGER == 2147483647

\* createDictionaryEntry calls made on one index.
MaxEntries == 2

\* ----------------------------------------------------------------- strings
Min(x, y) == IF x <= y THEN x ELSE y

Max(x, y) == IF x >= y THEN x ELSE y

Abs(x) == IF x < 0 THEN 0 - x ELSE x

RECURSIVE StringsOfLen(_)
StringsOfLen(n) ==
    IF n = 0 THEN {<<>>}
    ELSE {Append(s, c) : s \in StringsOfLen(n - 1), c \in Alphabet}

\* All strings of at most MaxLen letters.
Strings == UNION {StringsOfLen(n) : n \in 0..MaxLen}

\* Letters of the dictionary terms and lookup inputs.
Letters == {"a", "b"}

RECURSIVE TermsOfLen(_)
TermsOfLen(n) ==
    IF n = 0 THEN {<<>>}
    ELSE {Append(s, c) : s \in TermsOfLen(n - 1), c \in Letters}

\* All terms of at most MaxLen letters.
Terms == UNION {TermsOfLen(n) : n \in 0..MaxLen}

\* The terms shorter than the longest.
ShortTerms == UNION {TermsOfLen(n) : n \in 0..(MaxLen - 1)}

\* The value of an array cell that was never written (JavaScript's undefined).
Undef == -1

\* The character the kernel starts char1 and char2 with; it is no letter.
Blank == " "

\* ------------------------------------------------- helpers (README.md)
\* prefixSuffixPrep: lengths and start of the two strings once the common
\* suffix, then the common prefix, are left out.  Expects Len(string1) <=
\* Len(string2).
RECURSIVE stripSuffix(_, _, _, _)
stripSuffix(string1, string2, len1, len2) ==
    IF len1 # 0 /\ string1[len1] = string2[len2]
    THEN stripSuffix(string1, string2, len1 - 1, len2 - 1)
    ELSE <<len1, len2>>

RECURSIVE stripPrefix(_, _, _, _)
stripPrefix(string1, string2, len1, start) ==
    IF start # len1 /\ string1[start + 1] = string2[start + 1]
    THEN stripPrefix(string1, string2, len1, start + 1)
    ELSE start

prefixSuffixPrep(string1, string2) ==
    LET l == stripSuffix(string1, string2, Len(string1), Len(string2))
        start == stripPrefix(string1, string2, l[1], 0)
    IN  [len1 |-> l[1] - start, len2 |-> l[2] - start, start |-> start]

\* String.prototype.toUpperCase and toLowerCase, character by character: the
\* two letters have an upper-case form; a digit, a space and a punctuation
\* mark are their own upper-case and lower-case forms.
UpperOf == ("a" :> "A") @@ ("b" :> "B")

LowerOf == ("A" :> "a") @@ ("B" :> "b")

toUpperCaseChar(x) == IF x \in DOMAIN UpperOf THEN UpperOf[x] ELSE x

toLowerCaseChar(x) == IF x \in DOMAIN LowerOf THEN LowerOf[x] ELSE x

toUpperCase(string) == [i \in 1..Len(string) |-> toUpperCaseChar(string[i])]

toLowerCase(string) == [i \in 1..Len(string) |-> toLowerCaseChar(string[i])]

\* string.slice(from, to), 0 <= from <= to <= string.length
Slice(string, from, to) == SubSeq(string, from + 1, to)

\* transferCasingMatching(textWithCasing, textWithoutCasing): zip stops with
\* the shorter text; x === x.toUpperCase() decides each character.
transferCasingMatching(textWithCasing, textWithoutCasing) ==
    [i \in 1..Min(Len(textWithCasing), Len(textWithoutCasing)) |->
        IF textWithCasing[i] = toUpperCaseChar(textWithCasing[i])
        THEN toUpperCaseChar(textWithoutCasing[i])
        ELSE toLowerCaseChar(textWithoutCasing[i])]

\* difflib.SequenceMatcher(null, a, b), no junk: the longest block a[i..i+k) =
\* b[j..j+k) within a[alo..ahi) and b[blo..bhi), the earliest in a and then the
\* earliest in b among the longest; <<alo, blo, 0>> when nothing matches.
findLongestMatch(a, b, alo, ahi, blo, bhi) ==
    LET matches == {m \in (alo..(ahi - 1)) \X (blo..(bhi - 1)) \X (1..(ahi - alo)) :
                       /\ m[1] + m[3] <= ahi
                       /\ m[2] + m[3] <= bhi
                       /\ \A t \in 1..m[3] : a[m[1] + t] = b[m[2] + t]}
    IN  IF matches = {} THEN <<alo, blo, 0>>
        ELSE CHOOSE m \in matches :
                \A n \in matches :
                   \/ m[3] > n[3]
                   \/ m[3] = n[3] /\ m[1] < n[1]
                   \/ m[3] = n[3] /\ m[1] = n[1] /\ m[2] <= n[2]

\* getMatchingBlocks: the longest match, then the same to its left and to its
\* right, in order of position.
RECURSIVE getMatchingBlocks(_, _, _, _, _, _)
getMatchingBlocks(a, b, alo, ahi, blo, bhi) ==
    LET m == findLongestMatch(a, b, alo, ahi, blo, bhi)
        i == m[1]
        j == m[2]
        k == m[3]
    IN  IF k = 0 THEN <<>>
        ELSE (IF alo < i /\ blo < j
              THEN getMatchingBlocks(a, b, alo, i, blo, j) ELSE <<>>)
             \o <<m>>
             \o (IF i + k < ahi /\ j + k < bhi
                 THEN getMatchingBlocks(a, b, i + k, ahi, j + k, bhi) ELSE <<>>)

\* getOpcodes: what lies between consecutive matching blocks is a replace, a
\* delete or an insert; each block is an equal.
RECURSIVE opcodesFrom(_, _, _)
opcodesFrom(blocks, i, j) ==
    IF blocks = <<>> THEN <<>>
    ELSE LET ai == Head(blocks)[1]
             bj == Head(blocks)[2]
             size == Head(blocks)[3]
             tag == IF i < ai /\ j < bj THEN "replace"
                    ELSE IF i < ai THEN "delete"
                    ELSE IF j < bj THEN "insert"
                    ELSE ""
             gap == IF tag # ""
                    THEN <<[tag |-> tag, i1 |-> i, i2 |-> ai, j1 |-> j, j2 |-> bj]>>
                    ELSE <<>>
             same == IF size > 0
                     THEN <<[tag |-> "equal", i1 |-> ai, i2 |-> ai + size,
                             j1 |-> bj, j2 |-> bj + size]>>
                     ELSE <<>>
         IN  gap \o same \o opcodesFrom(Tail(blocks), ai + size, bj + size)

getOpcodes(a, b) ==
    opcodesFrom(Append(getMatchingBlocks(a, b, 0, Len(a), 0, Len(b)),
                       <<Len(a), Len(b), 0>>), 0, 0)

\* x.toUpperCase() === x for a character that is there.
IsUpperCased(x) == x # "undefined" /\ toUpperCaseChar(x) = x

\* The replace of unequal lengths: casing character by character, the last
\* casing carried over the characters textWithCasing has no partner for.
RECURSIVE zipLongestCasing(_, _, _, _)
zipLongestCasing(withCasing, withoutCasing, n, last) ==
    IF n > Max(Len(withCasing), Len(withoutCasing)) THEN <<>>
    ELSE IF n <= Len(withCasing) /\ n <= Len(withoutCasing)
    THEN IF withCasing[n] = toUpperCaseChar(withCasing[n])
         THEN <<toUpperCaseChar(withoutCasing[n])>>
                 \o zipLongestCasing(withCasing, withoutCasing, n + 1, "upper")
         ELSE <<toLowerCaseChar(withoutCasing[n])>>
                 \o zipLongestCasing(withCasing, withoutCasing, n + 1, "lower")
    ELSE IF n <= Len(withoutCasing)
    THEN <<IF last = "upper" THEN toUpperCaseChar(withoutCasing[n])
           ELSE toLowerCaseChar(withoutCasing[n])>>
            \o zipLongestCasing(withCasing, withoutCasing, n + 1, last)
    ELSE zipLongestCasing(withCasing, withoutCasing, n + 1, last)

\* What one opcode adds to the text transferCasingSimilar builds.
casingOf(op, textWithCasing, textWithoutCasing) ==
    LET before == IF op.i1 = 0 THEN "undefined" ELSE textWithCasing[op.i1]
        at == IF op.i1 < Len(textWithCasing)
              THEN textWithCasing[op.i1 + 1] ELSE "undefined"
        piece == Slice(textWithoutCasing, op.j1, op.j2)
    IN  IF op.tag = "insert"
        THEN IF op.i1 = 0 \/ before = " "
             THEN IF IsUpperCased(at) THEN toUpperCase(piece) ELSE toLowerCase(piece)
             ELSE IF IsUpperCased(before) THEN toUpperCase(piece) ELSE toLowerCase(piece)
        ELSE IF op.tag = "equal"
        THEN Slice(textWithCasing, op.i1, op.i2)
        ELSE IF op.tag = "replace"
        THEN IF op.i2 - op.i1 = op.j2 - op.j1
             THEN transferCasingMatching(Slice(textWithCasing, op.i1, op.i2), piece)
             ELSE zipLongestCasing(Slice(textWithCasing, op.i1, op.i2), piece, 1, "lower")
        ELSE <<>>

RECURSIVE casingOfAll(_, _, _)
casingOfAll(ops, textWithCasing, textWithoutCasing) ==
    IF ops = <<>> THEN <<>>
    ELSE casingOf(Head(ops), textWithCasing, textWithoutCasing)
            \o casingOfAll(Tail(ops), textWithCasing, textWithoutCasing)

\* transferCasingSimilar(textWithCasing, textWithoutCasing)
transferCasingSimilar(textWithCasing, textWithoutCasing) ==
    casingOfAll(getOpcodes(toLowerCase(textWithCasing), textWithoutCasing),
                textWithCasing, textWithoutCasing)

\* ------------------------------------------- EditDistance (edit-distance.js)
\* new Array(n): n cells, none written.
NewArray(n) == [j \in 1..n |-> Undef]

\* constructor: the two scratch buffers start empty.
NewEditDistance == [baseChar1Costs |-> <<>>, basePrevChar1Costs |-> <<>>]

\* Transposed with the second character test forgotten.
TransposedOneSided(i, j, char1, prevChar1, char2, prevChar2, thisTransCost, currentCost) ==
    /\ i # 0
    /\ j # 0
    /\ char1 = prevChar2
    /\ thisTransCost # Undef
    /\ thisTransCost + 1 < currentCost

\* The transposition test of the inner loop; a comparison with an undefined
\* thisTransCost is false.
Transposed(i, j, char1, prevChar1, char2, prevChar2, thisTransCost, currentCost) ==
    /\ i # 0
    /\ j # 0
    /\ char1 = prevChar2
    /\ prevChar1 = char2
    /\ thisTransCost # Undef
    /\ thisTransCost + 1 < currentCost

\* CellStep as a kernel without the transposition case (plain Levenshtein).
CellStepNoTransposition(r, i, j, char1, prevChar1, string2, start) ==
    LET diag == r.leftCharCost
        left == r.char1Costs[j + 1]
        char2 == string2[start + j + 1]
        c1 == IF r.aboveCharCost < diag THEN r.aboveCharCost ELSE diag
        c2 == IF left < c1 THEN left ELSE c1
        currentCost == IF char1 # char2 THEN c2 + 1 ELSE diag
    IN  [nextTransCost |-> r.prevChar1Costs[j + 1],
         leftCharCost |-> left,
         aboveCharCost |-> currentCost,
         currentCost |-> currentCost,
         char2 |-> char2,
         char1Costs |-> [r.char1Costs EXCEPT ![j + 1] = currentCost],
         prevChar1Costs |-> [r.prevChar1Costs EXCEPT ![j + 1] = diag]]

\* One cell (i, j) of the inner loop, shared by _distance and _distanceMax.
\* r holds the loop's locals and the two cost arrays.
CellStep(r, i, j, char1, prevChar1, string2, start) ==
    LET thisTransCost == r.nextTransCost
        diag == r.leftCharCost
        left == r.char1Costs[j + 1]
        prevChar2 == r.char2
        char2 == string2[start + j + 1]
        c0 == diag
        c1 == IF r.aboveCharCost < c0 THEN r.aboveCharCost ELSE c0
        c2 == IF left < c1 THEN left ELSE c1
        c3 == c2 + 1
        c4 == IF Transposed(i, j, char1, prevChar1, char2, prevChar2, thisTransCost, c3)
              THEN thisTransCost + 1 ELSE c3
        currentCost == IF char1 # char2 THEN c4 ELSE c0
    IN  [nextTransCost |-> r.prevChar1Costs[j + 1],
         leftCharCost |-> left,
         aboveCharCost |-> currentCost,
         currentCost |-> currentCost,
         char2 |-> char2,
         char1Costs |-> [r.char1Costs EXCEPT ![j + 1] = currentCost],
         prevChar1Costs |-> [r.prevChar1Costs EXCEPT ![j + 1] = diag]]

RECURSIVE InnerLoop(_, _, _, _, _, _, _, _)
InnerLoop(r, i, j, jEnd, char1, prevChar1, string2, start) ==
    IF j < jEnd
    THEN InnerLoop(CellStep(r, i, j, char1, prevChar1, string2, start),
                   i, j + 1, jEnd, char1, prevChar1, string2, start)
    ELSE r

\* The locals at the head of row i.
RowStart(r, i) ==
    [r EXCEPT !.char2 = Blank, !.leftCharCost = i, !.aboveCharCost = i,
              !.nextTransCost = 0]

\* _distance: the full two-row dynamic programme.  Returns the cost and the
\* previous-diagonal buffer as the call leaves it.
RECURSIVE distanceRows(_, _, _, _, _, _, _, _)
distanceRows(r, i, char1, string1, string2, len1, len2, start) ==
    IF i < len1
    THEN LET prevChar1 == char1
             c == string1[start + i + 1]
             r2 == InnerLoop(RowStart(r, i), i, 0, len2, c, prevChar1, string2, start)
         IN  distanceRows(r2, i + 1, c, string1, string2, len1, len2, start)
    ELSE r

_distance(string1, string2, len1, len2, start, prevChar1Costs) ==
    LET r0 == [nextTransCost |-> 0, leftCharCost |-> 0, aboveCharCost |-> 0,
               currentCost |-> 0, char2 |-> Blank,
               char1Costs |-> [j \in 1..len2 |-> j],
               prevChar1Costs |-> prevChar1Costs]
        r == distanceRows(r0, 0, Blank, string1, string2, len1, len2, start)
    IN  [ret |-> r.currentCost, prevChar1Costs |-> r.prevChar1Costs]

\* _distanceMax: the rows of the banded table, jStart and jEnd moving with i;
\* a row that ends above maxDistance on the lower-right diagonal returns -1.
RECURSIVE distanceMaxRows(_, _, _, _, _, _, _, _, _, _, _)
distanceMaxRows(r, i, jStart, jEnd, char1, string1, string2, len1, len2, start, maxDistance) ==
    IF i < len1
    THEN LET prevChar1 == char1
             c == string1[start + i + 1]
             lenDiff == len2 - len1
             jStartOffset == maxDistance - lenDiff
             jStart2 == jStart + (IF i > jStartOffset THEN 1 ELSE 0)
             jEnd2 == jEnd + (IF jEnd < len2 THEN 1 ELSE 0)
             r2 == InnerLoop(RowStart(r, i), i, jStart2, jEnd2, c, prevChar1, string2, start)
         IN  IF r2.char1Costs[i + lenDiff + 1] > maxDistance
             THEN [ret |-> -1, prevChar1Costs |-> r2.prevChar1Costs]
             ELSE distanceMaxRows(r2, i + 1, jStart2, jEnd2, c, string1, string2,
                                  len1, len2, start, maxDistance)
    ELSE [ret |-> IF r.currentCost <= maxDistance THEN r.currentCost ELSE -1,
          prevChar1Costs |-> r.prevChar1Costs]

_distanceMax(string1, string2, len1, len2, start, maxDistance, prevChar1Costs) ==
    LET r0 == [nextTransCost |-> 0, leftCharCost |-> 0, aboveCharCost |-> 0,
               currentCost |-> 0, char2 |-> Blank,
               char1Costs |-> [j \in 1..len2 |->
                                 IF j - 1 < maxDistance THEN j ELSE maxDistance + 1],
               prevChar1Costs |-> prevChar1Costs]
    IN  distanceMaxRows(r0, 0, 0, maxDistance, Blank, string1, string2,
                        len1, len2, start, maxDistance)

\* The part of distance after the shorter string is made string1.
distanceOrdered(ed, string1, string2, iMaxDistance) ==
    IF Len(string2) - Len(string1) > iMaxDistance
    THEN [ret |-> -1, ed |-> ed]
    ELSE LET p == prefixSuffixPrep(string1, string2)
             grown == IF p.len2 > Len(ed.baseChar1Costs)
                      THEN [baseChar1Costs |-> NewArray(p.len2),
                            basePrevChar1Costs |-> NewArray(p.len2)]
                      ELSE ed
             run == IF iMaxDistance < p.len2
                    THEN _distanceMax(string1, string2, p.len1, p.len2, p.start,
                                      iMaxDistance, grown.basePrevChar1Costs)
                    ELSE _distance(string1, string2, p.len1, p.len2, p.start,
                                   grown.basePrevChar1Costs)
         IN  IF p.len1 = 0
             THEN [ret |-> IF p.len2 <= iMaxDistance THEN p.len2 ELSE -1, ed |-> ed]
             ELSE [ret |-> run.ret,
                   ed |-> [grown EXCEPT !.basePrevChar1Costs = run.prevChar1Costs]]

\* null: the value of an absent string argument (no sequence of characters).
Null == <<"null">>

\* nullDistanceResults with the bound left out of account.
nullDistanceResultsUnbounded(string1, string2, maxDistance) ==
    IF string1 = Null
    THEN IF string2 = Null THEN 0 ELSE Len(string2)
    ELSE Len(string1)

\* Helpers.nullDistanceResults(string1, string2, maxDistance)
nullDistanceResults(string1, string2, maxDistance) ==
    IF string1 = Null
    THEN IF string2 = Null THEN 0
         ELSE IF Len(string2) <= maxDistance THEN Len(string2) ELSE -1
    ELSE IF Len(string1) <= maxDistance THEN Len(string1) ELSE -1

\* distance(string1, string2, maxDistance) on the instance ed: the value
\* returned and the instance as the call leaves it.
distance(ed, string1, string2, maxDistance) ==
    IF string1 = Null \/ string2 = Null
    THEN [ret |-> nullDistanceResults(string1, string2, maxDistance), ed |-> ed]
    ELSE IF maxDistance <= 0
    THEN [ret |-> IF string1 = string2 THEN 0 ELSE -1, ed |-> ed]
    ELSE LET iMaxDistance == IF maxDistance <= MAX_SAFE_INTEGER
                             THEN maxDistance ELSE MAX_SAFE_INTEGER
         IN  IF Len(string1) > Len(string2)
             THEN distanceOrdered(ed, string2, string1, iMaxDistance)
             ELSE distanceOrdered(ed, string1, string2, iMaxDistance)

\* compare: the name lookup calls the kernel by.
compare(ed, string1, string2, maxDistance) == distance(ed, string1, string2, maxDistance)

\* ------------------------------------------------ reference OSA distance
\* The textbook optimal-string-alignment recurrence over prefixes, the
\* yardstick the kernel is measured against (it is not the kernel's code).
RECURSIVE OSARef(_, _, _, _)
OSARef(a, b, i, j) ==
    IF i = 0 THEN j
    ELSE IF j = 0 THEN i
    ELSE LET cost == IF a[i] = b[j] THEN 0 ELSE 1
             base == Min(Min(OSARef(a, b, i - 1, j) + 1, OSARef(a, b, i, j - 1) + 1),
                         OSARef(a, b, i - 1, j - 1) + cost)
         IN  IF i > 1 /\ j > 1 /\ a[i] = b[j - 1] /\ a[i - 1] = b[j]
             THEN Min(base, OSARef(a, b, i - 2, j - 2) + 1)
             ELSE base

OSATable == [p \in Strings \X Strings |-> OSARef(p[1], p[2], Len(p[1]), Len(p[2]))]

OSA(a, b) == OSATable[<<a, b>>]

\* ------------------------------------------------------------------- state
VARIABLES
    maxDictionaryEditDistance,  \* constructor argument, M
    prefixLength,               \* constructor argument, P
    countThreshold,             \* constructor argument, T
    words,                      \* Map term -> count
    belowThresholdWords,        \* Map term -> count, terms still below T
    deletes,                    \* Map delete variant -> array of terms
    maxDictionaryWordLength,    \* length of the longest term of words
    entries,                    \* createDictionaryEntry calls made so far
    bigrams,                    \* Map "term term" -> count
    bigramCountMin,             \* smallest count of bigrams
    distanceComparer,           \* an EditDistance instance: its two scratch buffers
    call                        \* the last call made and the value it returned

config == <<maxDictionaryEditDistance, prefixLength, countThreshold>>

index == <<words, belowThresholdWords, deletes, maxDictionaryWordLength>>

bigramIndex == <<bigrams, bigramCountMin>>

vars == <<config, index, bigramIndex, entries, distanceComparer, call>>

NoCall == [op |-> "none"]

\* The operations that read the index; a result is taken before the next call.
Queries == {"lookup", "lookupCompound", "wordSegmentation"}

\* new Map()
EmptyMap == <<>>

\* Map.has / Map.set
Has(map, key) == key \in DOMAIN map

MapSet(map, key, value) ==
    [k \in DOMAIN map \cup {key} |-> IF k = key THEN value ELSE map[k]]

\* Map.delete
MapDelete(map, key) == [k \in DOMAIN map \ {key} |-> map[k]]

\* constructor: the index is empty.
EmptyIndex ==
    /\ words = EmptyMap
    /\ belowThresholdWords = EmptyMap
    /\ deletes = EmptyMap
    /\ maxDictionaryWordLength = 0
    /\ bigrams = EmptyMap
    /\ bigramCountMin = MAX_SAFE_INTEGER

\* --------------------------------------------------- the index (index.js)
\* word.slice(0, i) + word.slice(i + 1, word.length): word without its
\* character at 0-based position i.
DeleteChar(word, i) ==
    [n \in 1..(Len(word) - 1) |-> IF n <= i THEN word[n] ELSE word[n + 1]]

\* key.substr(0, n)
Prefix(key, n) == IF Len(key) > n THEN SubSeq(key, 1, n) ELSE key

\* edits(word, editDistance, deleteWords): the set deleteWords with the
\* strings added that deleting one character at a time from word gives; a
\* string already in the set is not descended into again.
RECURSIVE edits(_, _, _)
RECURSIVE editsLoop(_, _, _, _)
editsLoop(word, i, editDistance, deleteWords) ==
    IF i < Len(word)
    THEN LET del == DeleteChar(word, i)
             added == deleteWords \cup {del}
         IN  IF del \in deleteWords
             THEN editsLoop(word, i + 1, editDistance, deleteWords)
             ELSE editsLoop(word, i + 1, editDistance,
                      IF editDistance < maxDictionaryEditDistance
                      THEN edits(del, editDistance, added)
                      ELSE added)
    ELSE deleteWords

edits(word, editDistance, deleteWords) ==
    IF Len(word) > 1
    THEN editsLoop(word, 0, editDistance + 1, deleteWords)
    ELSE deleteWords

\* editsPrefix starting the recursion one deletion in.
editsPrefixOffByOne(key) ==
    LET empty == IF Len(key) <= maxDictionaryEditDistance THEN {<<>>} ELSE {}
        prefix == Prefix(key, prefixLength)
    IN  edits(prefix, 1, empty \cup {prefix})

\* editsPrefix(key): the delete variants key is filed under.
editsPrefix(key) ==
    LET empty == IF Len(key) <= maxDictionaryEditDistance THEN {<<>>} ELSE {}
        prefix == Prefix(key, prefixLength)
    IN  edits(prefix, 0, empty \cup {prefix})

\* SaturatingAdd as an update that stores the new count instead of the sum.
OverwritingAdd(countPrevious, count) == count

\* countPrevious + count, saturating at Number.MAX_SAFE_INTEGER.
SaturatingAdd(countPrevious, count) ==
    IF MAX_SAFE_INTEGER - countPrevious > count
    THEN countPrevious + count
    ELSE MAX_SAFE_INTEGER

\* createDictionaryEntry filing a new word under no delete variant.
NoDeletesPushed(key) == deletes

\* The index with key filed under each of its delete variants.
PushDeletes(key) ==
    LET variants == editsPrefix(key)
    IN  [del \in DOMAIN deletes \cup variants |->
            IF del \in variants
            THEN Append(IF Has(deletes, del) THEN deletes[del] ELSE <<>>, key)
            ELSE deletes[del]]

\* The promotion path leaving the staged count of key where it was.
PromoteKeepingBelow(key, count, below) ==
    [words |-> MapSet(words, key, count),
     belowThresholdWords |-> belowThresholdWords,
     deletes |-> PushDeletes(key),
     maxDictionaryWordLength |->
        IF Len(key) > maxDictionaryWordLength THEN Len(key)
        ELSE maxDictionaryWordLength,
     ret |-> TRUE]

\* The promotion path: key is a new word with this count.
Promote(key, count, below) ==
    [words |-> MapSet(words, key, count),
     belowThresholdWords |-> below,
     deletes |-> PushDeletes(key),
     maxDictionaryWordLength |->
        IF Len(key) > maxDictionaryWordLength THEN Len(key)
        ELSE maxDictionaryWordLength,
     ret |-> TRUE]

\* Keep as an update that reports the word as new.
KeepReturningTrue(newWords, below) ==
    [words |-> newWords,
     belowThresholdWords |-> below,
     deletes |-> deletes,
     maxDictionaryWordLength |-> maxDictionaryWordLength,
     ret |-> TRUE]

\* The index left as it is but for the two tables, and false returned.
Keep(newWords, below) ==
    [words |-> newWords,
     belowThresholdWords |-> below,
     deletes |-> deletes,
     maxDictionaryWordLength |-> maxDictionaryWordLength,
     ret |-> FALSE]

\* createDictionaryEntry(key, count): the index the call leaves and the value
\* it returns.
createDictionaryEntry(key, count) ==
    LET count0 == IF count <= 0 THEN 0 ELSE count
    IN  IF count <= 0 /\ countThreshold > 0
        THEN Keep(words, belowThresholdWords)
        ELSE IF countThreshold > 1 /\ Has(belowThresholdWords, key)
        THEN LET sum == SaturatingAdd(belowThresholdWords[key], count0)
             IN  IF sum >= countThreshold
                 THEN Promote(key, sum, MapDelete(belowThresholdWords, key))
                 ELSE Keep(words, MapSet(belowThresholdWords, key, sum))
        ELSE IF Has(words, key)
        THEN Keep(MapSet(words, key, SaturatingAdd(words[key], count0)),
                  belowThresholdWords)
        ELSE IF count0 < countThreshold
        THEN Keep(words, MapSet(belowThresholdWords, key, count0))
        ELSE Promote(key, count0, belowThresholdWords)

\* The index after the call.
IndexBecomes(r) ==
    /\ words' = r.words
    /\ belowThresholdWords' = r.belowThresholdWords
    /\ deletes' = r.deletes
    /\ maxDictionaryWordLength' = r.maxDictionaryWordLength

\* ------------------------------------------------------ lookup (index.js)
\* SymSpell.Verbosity
TOP == 0

CLOSEST == 1

ALL == 2

Verbosities == {TOP, CLOSEST, ALL}

\* new SuggestItem(term, distance, count)
SuggestItem(term, dist, count) ==
    [term |-> term, distance |-> dist, count |-> count]

\* SuggestItem.compareTo
compareTo(this, other) ==
    IF this.distance = other.distance
    THEN this.count - other.count
    ELSE other.distance - this.distance

\* Array.prototype.sort with the comparator compareTo: a stable insertion of
\* each item after the items that do not compare greater.
RECURSIVE SortBy(_, _)
SortBy(sorted, rest) ==
    IF rest = <<>> THEN sorted
    ELSE LET x == Head(rest)
             n == Cardinality({i \in DOMAIN sorted : compareTo(sorted[i], x) <= 0})
         IN  SortBy(SubSeq(sorted, 1, n) \o <<x>> \o SubSeq(sorted, n + 1, Len(sorted)),
                    Tail(rest))

\* Array.prototype.reverse
Reverse(seq) == [i \in 1..Len(seq) |-> seq[Len(seq) + 1 - i]]

\* SortSuggestions without the reverse().
SortedNotReversed(suggestions) ==
    IF Len(suggestions) > 1 THEN SortBy(<<>>, suggestions) ELSE suggestions

\* suggestions.sort((a, b) => a.compareTo(b)).reverse(), when there are two or
\* more.
SortSuggestions(suggestions) ==
    IF Len(suggestions) > 1 THEN Reverse(SortBy(<<>>, suggestions)) ELSE suggestions

\* string[i] with a 0-based i: undefined outside the string.
CharAt(string, i) ==
    IF i >= 0 /\ i < Len(string) THEN string[i + 1] ELSE "undefined"

\* string.substr(start), 0 <= start <= string.length
Substr(string, start) == SubSeq(string, start + 1, Len(string))

\* string.indexOf(char) < 0
NotIn(char, string) == \A i \in DOMAIN string : string[i] # char

\* deleteInSuggestionPrefix: every character of del is found, in order, in the
\* first prefixLength characters of suggestion (j is not advanced past a match).
RECURSIVE SkipTo(_, _, _, _)
SkipTo(delChar, suggestion, j, suggestionLen) ==
    IF j < suggestionLen /\ delChar # CharAt(suggestion, j)
    THEN SkipTo(delChar, suggestion, j + 1, suggestionLen)
    ELSE j

RECURSIVE deleteInSuggestionPrefixLoop(_, _, _, _, _, _)
deleteInSuggestionPrefixLoop(del, deleteLen, suggestion, suggestionLen, i, j) ==
    IF i < deleteLen
    THEN LET j2 == SkipTo(CharAt(del, i), suggestion, j, suggestionLen)
         IN  IF j2 = suggestionLen THEN FALSE
             ELSE deleteInSuggestionPrefixLoop(del, deleteLen, suggestion,
                                               suggestionLen, i + 1, j2)
    ELSE TRUE

deleteInSuggestionPrefix(del, deleteLen, suggestion, suggestionLen) ==
    IF deleteLen = 0 THEN TRUE
    ELSE deleteInSuggestionPrefixLoop(del, deleteLen, suggestion,
             IF prefixLength < suggestionLen THEN prefixLength ELSE suggestionLen, 0, 0)

\* The options of lookup: includeUnknown, ignoreToken (the set of inputs the
\* predicate matches; empty when the option is absent) and transferCasing.
NoOptions == [includeUnknown |-> FALSE, ignoreToken |-> {}, transferCasing |-> FALSE]

\* earlyExit taking includeUnknown as set.
earlyExitIncludingUnknown(suggestions, input, maxEditDistance, options) ==
    IF Len(suggestions) = 0
    THEN <<SuggestItem(input, maxEditDistance + 1, 0)>>
    ELSE suggestions

\* earlyExit: the suggestions, or the unknown input when asked for and none.
earlyExit(suggestions, input, maxEditDistance, options) ==
    IF options.includeUnknown /\ Len(suggestions) = 0
    THEN <<SuggestItem(input, maxEditDistance + 1, 0)>>
    ELSE suggestions

\* Lines 427-458: a verified suggestion at this distance meets the result list.
\* L is the state of the loop: suggestions, maxEditDistance2, the two
\* considered sets, the candidates with the pointer into them, the comparer.
Accept(L, q, suggestion, dist) ==
    IF dist <= L.maxEditDistance2
    THEN LET suggestionCount == words[suggestion]
             si == SuggestItem(suggestion, dist, suggestionCount)
             any == Len(L.suggestions) > 0
         IN  IF any /\ q.verbosity = TOP
             THEN IF dist < L.maxEditDistance2
                     \/ suggestionCount > L.suggestions[1].count
                  THEN [L EXCEPT !.maxEditDistance2 = dist,
                                 !.suggestions = [L.suggestions EXCEPT ![1] = si]]
                  ELSE L
             ELSE LET kept == IF any /\ q.verbosity = CLOSEST
                                 /\ dist < L.maxEditDistance2
                              THEN <<>> ELSE L.suggestions
                  IN  [L EXCEPT !.maxEditDistance2 =
                                    IF q.verbosity # ALL THEN dist ELSE @,
                                !.suggestions = Append(kept, si)]
    ELSE L

\* Lines 383-401: with the prefix budget used up, the tails of input and
\* suggestion differ beyond what one edit mends.
SuffixMismatch(q, candidateLen, suggestion, suggestionLen) ==
    LET min == IF prefixLength - q.maxEditDistance = candidateLen
               THEN Min(q.inputLen, suggestionLen) - prefixLength ELSE 0
    IN  /\ prefixLength - q.maxEditDistance = candidateLen
        /\ \/ /\ min > 1
              /\ Substr(q.input, q.inputLen + 1 - min)
                    # Substr(suggestion, suggestionLen + 1 - min)
           \/ /\ min > 0
              /\ CharAt(q.input, q.inputLen - min) # CharAt(suggestion, suggestionLen - min)
              /\ \/ CharAt(q.input, q.inputLen - min - 1)
                        # CharAt(suggestion, suggestionLen - min)
                 \/ CharAt(q.input, q.inputLen - min)
                        # CharAt(suggestion, suggestionLen - min - 1)

\* Lines 363-423: the distance of a suggestion that passed the length filters.
Verify(L, q, candidate, suggestion) ==
    LET candidateLen == Len(candidate)
        suggestionLen == Len(suggestion)
    IN  IF candidateLen = 0
        THEN LET dist == Max(q.inputLen, suggestionLen)
             IN  IF dist > L.maxEditDistance2
                    \/ suggestion \in L.consideredSuggestions
                 THEN L
                 ELSE Accept(L, q, suggestion, dist)
        ELSE IF suggestionLen = 1
        THEN LET dist == IF NotIn(suggestion[1], q.input)
                             THEN q.inputLen ELSE q.inputLen - 1
             IN  IF dist > L.maxEditDistance2
                    \/ suggestion \in L.consideredSuggestions
                 THEN L
                 ELSE Accept(L, q, suggestion, dist)
        ELSE IF SuffixMismatch(q, candidateLen, suggestion, suggestionLen)
        THEN L
        ELSE IF \/ /\ q.verbosity # ALL
                   /\ ~deleteInSuggestionPrefix(candidate, candidateLen,
                                                suggestion, suggestionLen)
                \/ suggestion \in L.consideredSuggestions
        THEN L
        ELSE LET d == compare(L.distanceComparer, q.input, suggestion,
                              L.maxEditDistance2)
                 L2 == [L EXCEPT !.consideredSuggestions = @ \cup {suggestion},
                                 !.distanceComparer = d.ed]
             IN  IF d.ret < 0 THEN L2 ELSE Accept(L2, q, suggestion, d.ret)

\* Lines 334-354: one entry of the candidate's bucket.
Consider(L, q, candidate, suggestion) ==
    LET candidateLen == Len(candidate)
        suggestionLen == Len(suggestion)
        suggPrefixLen == Min(suggestionLen, prefixLength)
    IN  IF suggestion = q.input
        THEN L
        ELSE IF \/ Abs(suggestionLen - q.inputLen) > L.maxEditDistance2
                \/ suggestionLen < candidateLen
                \/ (suggestionLen = candidateLen /\ suggestion # candidate)
        THEN L
        ELSE IF suggPrefixLen > q.inputPrefixLen
                /\ suggPrefixLen - candidateLen > L.maxEditDistance2
        THEN L
        ELSE Verify(L, q, candidate, suggestion)

\* Lines 333-459: the bucket of the candidate, entry by entry.
RECURSIVE SuggestionLoop(_, _, _, _)
SuggestionLoop(L, q, candidate, i) ==
    IF i < Len(deletes[candidate])
    THEN SuggestionLoop(Consider(L, q, candidate, deletes[candidate][i + 1]),
                        q, candidate, i + 1)
    ELSE L

\* Lines 472-479: the candidate's one-character deletes join the queue, each once.
RECURSIVE AddEdits(_, _, _)
AddEdits(L, candidate, i) ==
    IF i < Len(candidate)
    THEN LET del == DeleteChar(candidate, i)
         IN  IF del \in L.consideredDeletes
             THEN AddEdits(L, candidate, i + 1)
             ELSE AddEdits([L EXCEPT !.consideredDeletes = @ \cup {del},
                                     !.candidates = Append(@, del)],
                           candidate, i + 1)
    ELSE L

\* Lines 311-481: the candidates, first in first out.
RECURSIVE CandidateLoop(_, _)
CandidateLoop(L, q) ==
    IF L.candidatePointer < Len(L.candidates)
    THEN LET candidate == L.candidates[L.candidatePointer + 1]
             candidateLen == Len(candidate)
             lengthDiff == q.inputPrefixLen - candidateLen
             L1 == [L EXCEPT !.candidatePointer = @ + 1]
             L2 == IF Has(deletes, candidate)
                   THEN SuggestionLoop(L1, q, candidate, 0) ELSE L1
         IN  IF lengthDiff > L.maxEditDistance2
             THEN IF q.verbosity = ALL THEN CandidateLoop(L1, q) ELSE L1
             ELSE IF lengthDiff < q.maxEditDistance /\ candidateLen <= prefixLength
             THEN IF q.verbosity # ALL /\ lengthDiff >= L2.maxEditDistance2
                  THEN CandidateLoop(L2, q)
                  ELSE CandidateLoop(AddEdits(L2, candidate, 0), q)
             ELSE CandidateLoop(L2, q)
    ELSE L

\* Lines 288-309: the loop's state before the first candidate.
LoopStart(suggestions, input, maxEditDistance) ==
    [suggestions |-> suggestions,
     maxEditDistance2 |-> maxEditDistance,
     consideredDeletes |-> {},
     consideredSuggestions |-> {input},
     candidates |-> <<Prefix(input, prefixLength)>>,
     candidatePointer |-> 0,
     distanceComparer |-> NewEditDistance]

\* The ignoreToken test never met.
ignoreTokenNeverMatches(input, options) == FALSE

\* ignoreToken && input.match(ignoreToken)
ignoreTokenMatches(input, options) == input \in options.ignoreToken

\* Lines 488-492: with transferCasing, the casing of the phrase as it was
\* passed is put on each term of the list.
WithCasing(suggestions, originalPhrase, options) ==
    IF options.transferCasing
    THEN [i \in 1..Len(suggestions) |->
            SuggestItem(transferCasingSimilar(originalPhrase, suggestions[i].term),
                        suggestions[i].distance, suggestions[i].count)]
    ELSE suggestions

\* lookup(input, verbosity, maxEditDistance, options): the list returned.
\* With transferCasing the matching is done on the lower-cased input; inputLen
\* was taken before.
lookup(originalPhrase, verbosity, maxEditDistance, options) ==
    LET inputLen == Len(originalPhrase)
        input == IF options.transferCasing
                 THEN toLowerCase(originalPhrase) ELSE originalPhrase
        q == [input |-> input, verbosity |-> verbosity,
              maxEditDistance |-> maxEditDistance, inputLen |-> inputLen,
              inputPrefixLen |-> Min(inputLen, prefixLength)]
        exact == IF Has(words, input)
                 THEN <<SuggestItem(input, 0, words[input])>> ELSE <<>>
        ignored == ignoreTokenMatches(input, options)
        found == IF ignored THEN Append(exact, SuggestItem(input, 0, 1)) ELSE exact
    IN  IF inputLen - maxEditDistance > maxDictionaryWordLength
        THEN earlyExit(<<>>, input, maxEditDistance, options)
        ELSE IF Has(words, input) /\ verbosity # ALL
        THEN earlyExit(exact, input, maxEditDistance, options)
        ELSE IF ignored /\ verbosity # ALL
        THEN earlyExit(found, input, maxEditDistance, options)
        ELSE IF maxEditDistance = 0
        THEN earlyExit(found, input, maxEditDistance, options)
        ELSE earlyExit(
                WithCasing(
                    SortSuggestions(
                        CandidateLoop(LoopStart(found, input, maxEditDistance),
                                      q).suggestions),
                    originalPhrase, options),
                input, maxEditDistance, options)

\* ------------------------------------------------------------ lookupCompound
\* SymSpell.N, 1024908267229 in the source. TLC's integers are 32-bit, so the
\* model takes 2^30. N is used only as a divisor of products of counts; with
\* the counts of the model these quotients are below 1 for both values.
N == 1073741824

Digits == {"0", "1", "2", "3", "4", "5", "6", "7", "8", "9"}

DigitValue ==
    ("0" :> 0) @@ ("1" :> 1) @@ ("2" :> 2) @@ ("3" :> 3) @@ ("4" :> 4) @@
    ("5" :> 5) @@ ("6" :> 6) @@ ("7" :> 7) @@ ("8" :> 8) @@ ("9" :> 9)

\* [^\W_]: letters and digits.
Alnum == DOMAIN UpperOf \cup DOMAIN LowerOf \cup Digits

\* The apostrophe and the right single quotation mark U+2019, the two
\* characters of the class in /['...]*/; the latter is the one-character
\* string written "U+2019" here.
Apostrophes == {"'", "U+2019"}

\* \w: letters, digits and the underscore.
WordChars == Alnum \cup {"_"}

\* [A-Z0-9]
CapsOrDigits == DOMAIN LowerOf \cup Digits

\* \s, as far as the strings of the model have it.
Whitespace == {" "}

RECURSIVE RunEnd(_, _, _)
\* The first position from i on whose character is not in class (Len + 1 when
\* there is none): where a greedy class+ or class* started at i stops.
RunEnd(string, i, class) ==
    IF i <= Len(string) /\ string[i] \in class
    THEN RunEnd(string, i + 1, class) ELSE i

RECURSIVE parseIntDigits(_, _, _)
parseIntDigits(string, i, value) ==
    IF i <= Len(string) /\ string[i] \in Digits
    THEN parseIntDigits(string, i + 1, value * 10 + DigitValue[string[i]])
    ELSE value

\* parseInt(string, 10): leading whitespace and one sign are skipped, the
\* digits that follow are read up to the first other character; NaN when there
\* is no digit there.
parseInt(string) ==
    LET start == RunEnd(string, 1, Whitespace)
        signed == start <= Len(string) /\ string[start] \in {"-", "+"}
        first == IF signed THEN start + 1 ELSE start
        value == parseIntDigits(string, first, 0)
    IN  IF first <= Len(string) /\ string[first] \in Digits
        THEN [nan |-> FALSE,
              value |-> IF signed /\ string[start] = "-" THEN 0 - value ELSE value]
        ELSE [nan |-> TRUE, value |-> 0]

\* if (parseInt(x, 10)): NaN and 0 are falsy.
Truthy(number) == ~number.nan /\ number.value # 0

\* word.match(/\b[A-Z0-9]{2,}\b/): some stretch of two or more characters of
\* [A-Z0-9] with a word boundary on either side, anywhere in word.
isAcronym(word) ==
    \E i \in 1..Len(word) : \E j \in (i + 1)..Len(word) :
        /\ \A x \in i..j : word[x] \in CapsOrDigits
        /\ (i = 1 \/ word[i - 1] \notin WordChars)
        /\ (j = Len(word) \/ word[j + 1] \notin WordChars)

RECURSIVE matchAllWords(_, _, _)
\* The matches of /([^\W_]+['U+2019]*[^\W_]*)/g from position i on.
matchAllWords(phrase, i, found) ==
    IF i > Len(phrase) THEN found
    ELSE IF phrase[i] \notin Alnum THEN matchAllWords(phrase, i + 1, found)
    ELSE LET end == RunEnd(phrase,
                           RunEnd(phrase, RunEnd(phrase, i, Alnum), Apostrophes),
                           Alnum)
         IN  matchAllWords(phrase, end, Append(found, SubSeq(phrase, i, end - 1)))

parseWordsCase(phrase, preserveCase) ==
    matchAllWords(IF preserveCase THEN phrase ELSE toLowerCase(phrase), 1, <<>>)

RECURSIVE Power(_, _)
Power(base, exponent) ==
    IF exponent = 0 THEN 1 ELSE base * Power(base, exponent - 1)

\* count > count1 / N * (numerator / denominator), for an integer count and
\* non-negative integers: an integer exceeds a real exactly when it exceeds
\* its floor.
MoreThanShare(count, count1, numerator, denominator) ==
    count > ((count1 * numerator) \div denominator) \div N

\* An unknown part given the bound itself for its distance.
UnknownPartAtBound(term, maxEditDistance) ==
    SuggestItem(term, maxEditDistance, 10 \div Power(10, Len(term)))

\* The part pushed for a term nothing was found for.
UnknownPart(term, maxEditDistance) ==
    SuggestItem(term, maxEditDistance + 1, 10 \div Power(10, Len(term)))

\* The combination check without the one edit counted for the space removed.
CombiCheckWithoutThePenalty(parts, suggestions, suggestionsCombi, token, maxEditDistance) ==
    IF Len(suggestionsCombi) = 0 THEN [taken |-> FALSE, parts |-> parts]
    ELSE LET best1 == parts[Len(parts)]
             known == Len(suggestions) > 0
             distance2 == IF known THEN suggestions[1].distance
                          ELSE maxEditDistance + 1
             numerator == IF known THEN suggestions[1].count ELSE 10
             denominator == IF known THEN 1 ELSE Power(10, Len(token))
             distance1 == best1.distance + distance2
             combi == suggestionsCombi[1]
         IN  IF /\ distance1 >= 0
                /\ \/ combi.distance < distance1
                   \/ /\ combi.distance = distance1
                      /\ MoreThanShare(combi.count, best1.count,
                                       numerator, denominator)
             THEN [taken |-> TRUE,
                   parts |-> [parts EXCEPT ![Len(parts)] =
                                 [combi EXCEPT !.distance = @ + 1]]]
             ELSE [taken |-> FALSE, parts |-> parts]

\* The combination of token i - 1 and token i is taken: lines 624-658.
\* [taken |-> whether the last part was replaced, parts |-> the parts then].
CombiCheck(parts, suggestions, suggestionsCombi, token, maxEditDistance) ==
    IF Len(suggestionsCombi) = 0 THEN [taken |-> FALSE, parts |-> parts]
    ELSE LET best1 == parts[Len(parts)]
             known == Len(suggestions) > 0
             distance2 == IF known THEN suggestions[1].distance
                          ELSE maxEditDistance + 1
             numerator == IF known THEN suggestions[1].count ELSE 10
             denominator == IF known THEN 1 ELSE Power(10, Len(token))
             distance1 == best1.distance + distance2
             combi == suggestionsCombi[1]
         IN  IF /\ distance1 >= 0
                /\ \/ combi.distance + 1 < distance1
                   \/ /\ combi.distance + 1 = distance1
                      /\ MoreThanShare(combi.count, best1.count,
                                       numerator, denominator)
             THEN [taken |-> TRUE,
                   parts |-> [parts EXCEPT ![Len(parts)] =
                                 [combi EXCEPT !.distance = @ + 1]]]
             ELSE [taken |-> FALSE, parts |-> parts]

\* suggestionSplit.count: lines 711-737.
SplitCount(term, suggestions, top1, top2, token) ==
    IF Has(bigrams, term)
    THEN IF Len(suggestions) > 0
         THEN IF top1.term \o top2.term = token
              THEN Max(bigrams[term], suggestions[1].count + 2)
              ELSE IF top1.term = suggestions[1].term
                      \/ top2.term = suggestions[1].term
              THEN Max(bigrams[term], suggestions[1].count + 1)
              ELSE bigrams[term]
         ELSE IF top1.term \o top2.term = token
              THEN Max(bigrams[term], Max(top1.count, top2.count) + 2)
              ELSE bigrams[term]
    ELSE Min(bigramCountMin, (top1.count * top2.count) \div N)

\* Lines 690-741, for a split both of whose halves have a suggestion (top1,
\* top2); compared is what compare(token, term, maxEditDistance) returned.
\* B = [best |-> suggestionSplitBest, empty for null, ed |-> distanceComparer].
SplitCompared(token, B, suggestions, maxEditDistance, top1, top2, term, compared) ==
    LET distance2 == IF compared.ret < 0 THEN maxEditDistance + 1
                     ELSE compared.ret
        kept == IF B.best # <<>> /\ distance2 < B.best[1].distance
                THEN <<>> ELSE B.best
        split == SuggestItem(term, distance2,
                             SplitCount(term, suggestions, top1, top2, token))
    IN  IF B.best # <<>> /\ distance2 > B.best[1].distance
        THEN [best |-> B.best, ed |-> compared.ed]
        ELSE [best |-> IF kept = <<>> \/ split.count > kept[1].count
                       THEN <<split>> ELSE kept,
              ed |-> compared.ed]

SplitTerm(top1, top2) == top1.term \o <<" ">> \o top2.term

\* One split point: lines 680-743. suggestions1 and suggestions2 are the
\* lookups of the two halves.
SplitStep(token, B, suggestions, maxEditDistance, suggestions1, suggestions2) ==
    IF Len(suggestions1) = 0 \/ Len(suggestions2) = 0 THEN B
    ELSE SplitCompared(token, B, suggestions, maxEditDistance,
                       suggestions1[1], suggestions2[1],
                       SplitTerm(suggestions1[1], suggestions2[1]),
                       compare(B.ed, token,
                               SplitTerm(suggestions1[1], suggestions2[1]),
                               maxEditDistance))

RECURSIVE SplitLoop(_, _, _, _, _, _)
\* The loop over the split points j of a token (lines 679-744). top[t] is
\* this.lookup(t, Verbosity.TOP, maxEditDistance).
SplitLoop(token, j, B, suggestions, maxEditDistance, top) ==
    IF j >= Len(token) THEN B
    ELSE SplitLoop(token, j + 1,
                   SplitStep(token, B, suggestions, maxEditDistance,
                             top[Slice(token, 0, j)], top[Substr(token, j)]),
                   suggestions, maxEditDistance, top)

\* The part pushed after the splits were tried: lines 746-757.
SplitOrUnknown(S, token, B, maxEditDistance) ==
    [parts |-> Append(S.parts,
                      IF B.best # <<>> THEN B.best[1]
                      ELSE UnknownPart(token, maxEditDistance)),
     lastCombi |-> FALSE, ed |-> B.ed]

\* Lines 662-767: the token is neither skipped nor combined.
SingleOrSplit(S, token, suggestions, maxEditDistance, top) ==
    IF Len(suggestions) > 0 /\ (suggestions[1].distance = 0 \/ Len(token) = 1)
    THEN [parts |-> Append(S.parts, suggestions[1]), lastCombi |-> FALSE,
          ed |-> S.ed]
    ELSE IF Len(token) > 1
    THEN SplitOrUnknown(S, token,
                        SplitLoop(token, 1,
                                  [best |-> IF Len(suggestions) > 0
                                            THEN <<suggestions[1]>> ELSE <<>>,
                                   ed |-> S.ed],
                                  suggestions, maxEditDistance, top),
                        maxEditDistance)
    ELSE [parts |-> Append(S.parts, UnknownPart(token, maxEditDistance)),
          lastCombi |-> FALSE, ed |-> S.ed]

\* Lines 606-616: the part pushed for a token that is skipped, as a sequence
\* that is empty when the token is not skipped.
Skipped(termList1, termList2, i, options) ==
    IF ~options.ignoreNonWords THEN <<>>
    ELSE IF Truthy(parseInt(termList1[i])) THEN <<SuggestItem(termList1[i], 0, 0)>>
    ELSE IF isAcronym(termList2[i]) THEN <<SuggestItem(termList2[i], 0, 0)>>
    ELSE <<>>

\* The combination taken without setting lastCombi.
CombinedLeavingTheFlag(S, token, suggestions, combi, maxEditDistance, top) ==
    IF combi.taken
    THEN [S EXCEPT !.parts = combi.parts]
    ELSE SingleOrSplit(S, token, suggestions, maxEditDistance, top)

\* Lines 654-657 when the combination was taken, lines 662-767 otherwise.
CombinedOrSingle(S, token, suggestions, combi, maxEditDistance, top) ==
    IF combi.taken
    THEN [S EXCEPT !.parts = combi.parts, !.lastCombi = TRUE]
    ELSE SingleOrSplit(S, token, suggestions, maxEditDistance, top)

\* One token: lines 606-767. suggestions is the lookup of the token and
\* suggestionsCombi that of the previous token and this one put together,
\* empty when the combination is not tried (i = 0 or lastCombi).
TokenStep(S, token, skipped, suggestions, suggestionsCombi, maxEditDistance, top) ==
    IF skipped # <<>>
    THEN [S EXCEPT !.parts = Append(@, skipped[1])]
    ELSE CombinedOrSingle(S, token, suggestions,
                          CombiCheck(S.parts, suggestions, suggestionsCombi,
                                     token, maxEditDistance),
                          maxEditDistance, top)

RECURSIVE TokenLoop(_, _, _, _, _, _, _)
\* The loop over the tokens (lines 605-768); i counts from 1.
\* S = [parts |-> suggestionParts, lastCombi, ed |-> distanceComparer];
\* top[t] is this.lookup(t, Verbosity.TOP, maxEditDistance).
TokenLoop(S, i, termList1, termList2, maxEditDistance, options, top) ==
    IF i > Len(termList1) THEN S
    ELSE TokenLoop(TokenStep(S, termList1[i],
                             Skipped(termList1, termList2, i, options),
                             top[termList1[i]],
                             IF i > 1 /\ ~S.lastCombi
                             THEN top[termList1[i - 1] \o termList1[i]]
                             ELSE <<>>,
                             maxEditDistance, top),
                   i + 1, termList1, termList2, maxEditDistance, options, top)

RECURSIVE JoinParts(_, _)
\* s += si.term + ' ', over the parts from i on.
JoinParts(parts, i) ==
    IF i > Len(parts) THEN <<>>
    ELSE parts[i].term \o <<" ">> \o JoinParts(parts, i + 1)

RECURSIVE trimEnd(_)
trimEnd(string) ==
    IF Len(string) > 0 /\ string[Len(string)] \in Whitespace
    THEN trimEnd(SubSeq(string, 1, Len(string) - 1)) ELSE string

RECURSIVE CountProduct(_, _)
CountProduct(parts, i) ==
    IF i > Len(parts) THEN 1 ELSE parts[i].count * CountProduct(parts, i + 1)

RECURSIVE DivideByN(_, _)
DivideByN(x, times) ==
    IF times = 0 THEN x ELSE DivideByN(x \div N, times - 1)

\* Math.floor(N * (c1 / N) * ... * (cn / N)), in exact arithmetic.
CompoundCount(parts) ==
    IF Len(parts) = 0 THEN N
    ELSE DivideByN(CountProduct(parts, 1), Len(parts) - 1)

NoCompoundOptions == [ignoreNonWords |-> FALSE, transferCasing |-> FALSE]

\* Lines 787-792: the one suggestion returned, and the parts it was made of.
CompoundResult(input, S, term) ==
    [ret |-> <<SuggestItem(term,
                           compare(S.ed, input, term, MAX_SAFE_INTEGER).ret,
                           CompoundCount(S.parts))>>,
     parts |-> S.parts]

\* Lines 770-785.
CompoundTerm(input, options, joined) ==
    IF options.transferCasing THEN transferCasingSimilar(input, joined)
    ELSE joined

CompoundOf(input, options, S) ==
    CompoundResult(input, S,
                   CompoundTerm(input, options, trimEnd(JoinParts(S.parts, 1))))

\* The body of lookupCompound; top[t] is
\* this.lookup(t, Verbosity.TOP, maxEditDistance).
lookupCompoundWith(input, maxEditDistance, options, top) ==
    CompoundOf(input, options,
               TokenLoop([parts |-> <<>>, lastCombi |-> FALSE,
                          ed |-> NewEditDistance],
                         1, parseWordsCase(input, FALSE),
                         IF options.ignoreNonWords
                         THEN parseWordsCase(input, TRUE) ELSE <<>>,
                         maxEditDistance, options, top))

\* lookupCompound(input, maxEditDistance, options): the list returned, and the
\* parts it was made of.
lookupCompound(input, maxEditDistance, options) ==
    lookupCompoundWith(input, maxEditDistance, options,
                       [t \in Seq(Alnum \cup Apostrophes) |->
                          lookup(t, TOP, maxEditDistance, NoOptions)])

\* ---------------------------------------------------------- wordSegmentation
\* undefined: a cell of the array never written, or an element read outside it.
Undefined == [undefined |-> TRUE]

\* A sum of logarithms Math.log10(count / N) and
\* Math.log10(10 / (N / 10^length)), kept exactly: it is
\* log10(product * 10^tens / N^parts), product being the product of the counts,
\* tens the sum of 1 + length over the parts not found and parts the number of
\* terms of the sum.
LogOfKnown(count) == [product |-> count, tens |-> 0, parts |-> 1]

LogOfUnknown(length) == [product |-> 1, tens |-> 1 + length, parts |-> 1]

LogSum(x, y) ==
    [product |-> x.product * y.product, tens |-> x.tens + y.tens,
     parts |-> x.parts + y.parts]

\* x * 10^e < y, for positive integers below 10^9.
TimesTenLess(x, e, y) == x <= (y - 1) \div Power(10, Min(e, 9))

\* x < y for two such sums. product * 10^tens is below N for every sum over
\* parts of one input of up to ten characters, so of two sums with different
\* numbers of terms the one with more terms is the smaller.
LogLess(x, y) ==
    IF x.parts # y.parts THEN x.parts > y.parts
    ELSE IF x.tens >= y.tens
    THEN TimesTenLess(x.product, x.tens - y.tens, y.product)
    ELSE ~TimesTenLess(y.product, y.tens - x.tens, x.product + 1)

Composition(segmentedString, correctedString, distanceSum, probabilityLogSum) ==
    [segmentedString |-> segmentedString, correctedString |-> correctedString,
     distanceSum |-> distanceSum, probabilityLogSum |-> probabilityLogSum]

\* compositions[i]
CellAt(compositions, i) ==
    IF i + 1 \in DOMAIN compositions THEN compositions[i + 1] ELSE Undefined

NotWhitespace(char) == char \notin Whitespace

\* Lines 835-856: the part of length i at j, its leading whitespace dropped
\* and the whitespace inside it removed.
\* [part, separatorLength, topEd |-> the number of characters removed inside].
SegmentPart(input, j, i) ==
    LET raw == SubSeq(input, j + 1, j + i)
        cut == IF raw[1] \in Whitespace THEN Tail(raw) ELSE raw
        part == SelectSeq(cut, NotWhitespace)
    IN  [part |-> part,
         separatorLength |-> IF raw[1] \in Whitespace THEN 0 ELSE 1,
         topEd |-> Len(cut) - Len(part)]

\* Lines 860-878: what the part is taken for, results being its lookup.
TopOf(sp, results) ==
    IF Len(results) > 0
    THEN [topResult |-> results[1].term,
          topEd |-> sp.topEd + results[1].distance,
          topProbabilityLog |-> LogOfKnown(results[1].count)]
    ELSE [topResult |-> sp.part,
          topEd |-> sp.topEd + Len(sp.part),
          topProbabilityLog |-> LogOfUnknown(Len(sp.part))]

\* The composition extended with the correction in both strings.
ExtendedWithTheCorrection(circular, sp, top) ==
    Composition(circular.segmentedString \o <<" ">> \o top.topResult,
                circular.correctedString \o <<" ">> \o top.topResult,
                circular.distanceSum + sp.separatorLength + top.topEd,
                LogSum(circular.probabilityLogSum, top.topProbabilityLog))

\* Lines 896-901: the composition at circularIndex with the part added.
Extended(circular, sp, top) ==
    Composition(circular.segmentedString \o <<" ">> \o sp.part,
                circular.correctedString \o <<" ">> \o top.topResult,
                circular.distanceSum + sp.separatorLength + top.topEd,
                LogSum(circular.probabilityLogSum, top.topProbabilityLog))

\* The condition of lines 891-895 past i === maxSegmentationWordLength.
Better(circular, destination, sp, top) ==
    \/ /\ \/ circular.distanceSum + top.topEd = destination.distanceSum
          \/ circular.distanceSum + sp.separatorLength + top.topEd
                = destination.distanceSum
       /\ LogLess(destination.probabilityLogSum,
                  LogSum(circular.probabilityLogSum, top.topProbabilityLog))
    \/ circular.distanceSum + sp.separatorLength + top.topEd
          < destination.distanceSum

\* Lines 880-902. W = [compositions, circularIndex, threw]; threw is set when
\* a field of an undefined cell is read.
Place(W, j, i, sp, top, maxSegmentationWordLength) ==
    LET destinationIndex == (i + W.circularIndex) % Len(W.compositions)
        circular == CellAt(W.compositions, W.circularIndex)
        destination == CellAt(W.compositions, destinationIndex)
    IN  IF j = 0
        THEN [W EXCEPT !.compositions[destinationIndex + 1] =
                 Composition(sp.part, top.topResult, top.topEd,
                             top.topProbabilityLog)]
        ELSE IF circular = Undefined THEN [W EXCEPT !.threw = TRUE]
        ELSE IF i = maxSegmentationWordLength
        THEN [W EXCEPT !.compositions[destinationIndex + 1] =
                 Extended(circular, sp, top)]
        ELSE IF destination = Undefined THEN [W EXCEPT !.threw = TRUE]
        ELSE IF Better(circular, destination, sp, top)
        THEN [W EXCEPT !.compositions[destinationIndex + 1] =
                 Extended(circular, sp, top)]
        ELSE W

RECURSIVE PartLoop(_, _, _, _, _, _)
\* The inner loop, lines 833-903. top[part] is
\* this.lookup(part, Verbosity.TOP, maxEditDistance, { ignoreToken }).
PartLoop(W, input, j, i, maxSegmentationWordLength, top) ==
    IF i > Min(Len(input) - j, maxSegmentationWordLength) \/ W.threw THEN W
    ELSE PartLoop(Place(W, j, i, SegmentPart(input, j, i),
                        TopOf(SegmentPart(input, j, i),
                              top[SegmentPart(input, j, i).part]),
                        maxSegmentationWordLength),
                  input, j, i + 1, maxSegmentationWordLength, top)

\* circularIndex going on without coming back to 0.
AdvanceNeverWrapping(W) ==
    IF W.threw THEN W ELSE [W EXCEPT !.circularIndex = @ + 1]

\* Lines 905-909.
Advance(W) ==
    IF W.threw THEN W
    ELSE [W EXCEPT !.circularIndex =
             IF @ + 1 = Len(W.compositions) THEN 0 ELSE @ + 1]

RECURSIVE StartLoop(_, _, _, _, _)
\* The outer loop, lines 829-910.
StartLoop(W, input, j, maxSegmentationWordLength, top) ==
    IF j >= Len(input) \/ W.threw THEN W
    ELSE StartLoop(Advance(PartLoop(W, input, j, 1,
                                    maxSegmentationWordLength, top)),
                   input, j + 1, maxSegmentationWordLength, top)

\* Line 912.
Segmented(W) ==
    IF W.threw THEN [threw |-> TRUE]
    ELSE [threw |-> FALSE, value |-> CellAt(W.compositions, W.circularIndex)]

\* Lines 816-822: null stands for the configured maximum and for the length
\* of the longest word; Undef stands for null in the two numbers.
SegmentEditDistance(options) ==
    IF options.maxEditDistance = Undef
    THEN maxDictionaryEditDistance ELSE options.maxEditDistance

SegmentWordLength(options) ==
    IF options.maxSegmentationWordLength = Undef
    THEN maxDictionaryWordLength ELSE options.maxSegmentationWordLength

\* Lines 824-826: new Array(arraySize), circularIndex = -1.
NewCompositions(input, options) ==
    [compositions |->
        [c \in 1..Min(SegmentWordLength(options), Len(input)) |-> Undefined],
     circularIndex |-> 0 - 1, threw |-> FALSE]

\* The body of wordSegmentation; top[part] is
\* this.lookup(part, Verbosity.TOP, maxEditDistance, { ignoreToken }).
wordSegmentationWith(input, options, top) ==
    Segmented(StartLoop(NewCompositions(input, options), input, 0,
                        SegmentWordLength(options), top))

\* wordSegmentation(input, {maxEditDistance, maxSegmentationWordLength,
\* ignoreToken}).
wordSegmentation(input, options) ==
    wordSegmentationWith(input, options,
                         [t \in Seq(Alnum \cup Apostrophes) |->
                            lookup(t, TOP, SegmentEditDistance(options),
                                   [NoOptions EXCEPT
                                       !.ignoreToken = options.ignoreToken])])

\* --------------------------------------------------------------- loadDictionary
RECURSIVE trimStart(_)
trimStart(string) ==
    IF Len(string) > 0 /\ string[1] \in Whitespace
    THEN trimStart(Tail(string)) ELSE string

\* line.trim()
trim(string) == trimEnd(trimStart(string))

RECURSIVE split(_, _, _, _)
\* string.split(separator) for a separator of one character, from position i
\* on; field is the field being read.
split(string, separator, i, field) ==
    IF i > Len(string) THEN <<field>>
    ELSE IF string[i] = separator
    THEN <<field>> \o split(string, separator, i + 1, <<>>)
    ELSE split(string, separator, i + 1, Append(field, string[i]))

\* undefined as an element read past the end of lineParts: no string.
UndefinedField == <<"undefined">>

\* lineParts[i]
FieldAt(lineParts, i) ==
    IF i + 1 \in DOMAIN lineParts THEN lineParts[i + 1] ELSE UndefinedField

\* NaN as a count stored in a Map: no count is negative.
NaN == 0 - 1

\* createDictionaryEntry(key, NaN), for a key without a NaN count so far:
\* every comparison with NaN is false, so count <= 0 and
\* count < countThreshold are, and a sum with NaN becomes MAX_SAFE_INTEGER.
createDictionaryEntryNaN(key) ==
    IF countThreshold > 1 /\ Has(belowThresholdWords, key)
    THEN Promote(key, MAX_SAFE_INTEGER, MapDelete(belowThresholdWords, key))
    ELSE IF Has(words, key)
    THEN Keep(MapSet(words, key, MAX_SAFE_INTEGER), belowThresholdWords)
    ELSE Promote(key, NaN, belowThresholdWords)

\* createDictionaryEntry(undefined, count): as for any key up to
\* this.words.set(key, count); key.length then throws a TypeError, before
\* maxDictionaryWordLength and deletes are touched.
WithUndefinedKey(r) ==
    IF r.ret
    THEN [r EXCEPT !.deletes = deletes,
                   !.maxDictionaryWordLength = maxDictionaryWordLength,
                   !.ret = FALSE] @@ [threw |-> TRUE]
    ELSE r @@ [threw |-> FALSE]

\* this.createDictionaryEntry(key, count) as loadDictionary calls it: key may
\* be undefined and count NaN.
createDictionaryEntryOfLine(key, count) ==
    IF key = UndefinedField
    THEN WithUndefinedKey(IF count.nan THEN createDictionaryEntryNaN(key)
                          ELSE createDictionaryEntry(key, count.value))
    ELSE (IF count.nan THEN createDictionaryEntryNaN(key)
          ELSE createDictionaryEntry(key, count.value)) @@ [threw |-> FALSE]

\* if (lineParts.length >= 2)
EnoughFields(lineParts, termIndex, countIndex) == Len(lineParts) >= 2

\* The body of the loop of loadDictionary for one line (lines 192-199).
loadDictionaryLine(line, termIndex, countIndex, separator) ==
    LET lineParts == split(trim(line), separator, 1, <<>>)
    IN  IF EnoughFields(lineParts, termIndex, countIndex)
        THEN createDictionaryEntryOfLine(FieldAt(lineParts, termIndex),
                                         parseInt(FieldAt(lineParts, countIndex)))
        ELSE Keep(words, belowThresholdWords) @@ [threw |-> FALSE]

\* ------------------------------------------------------ the kernel's runs
\* Largest maxDistance argument: one more than the longest string, so that a
\* bound no distance reaches is among the cases.
MaxDistances == 0..(MaxLen + 1)

\* The index takes no part in the kernel's runs: it is the default, empty one.
InitDist ==
    /\ maxDictionaryEditDistance = 2
    /\ prefixLength = 7
    /\ countThreshold = 1
    /\ EmptyIndex
    /\ entries = 0
    /\ distanceComparer = NewEditDistance
    /\ call = NoCall

\* distanceComparer.distance(string1, string2, maxDistance), the caller having
\* taken the previous result.
Distance(string1, string2, maxDistance) ==
    /\ call = NoCall
    /\ LET d == distance(distanceComparer, string1, string2, maxDistance)
       IN  /\ distanceComparer' = d.ed
           /\ call' = [op |-> "distance", string1 |-> string1, string2 |-> string2,
                       maxDistance |-> maxDistance, ret |-> d.ret,
                       edBefore |-> distanceComparer]
    /\ UNCHANGED <<config, bigramIndex, index, entries>>

\* The caller takes the returned value; the instance is kept for the next call.
TakeResult ==
    /\ call # NoCall
    /\ call' = NoCall
    /\ UNCHANGED <<config, bigramIndex, index, entries, distanceComparer>>

NextDist ==
    \/ /\ call = NoCall
       /\ \E string1 \in Strings, string2 \in Strings, maxDistance \in MaxDistances :
             Distance(string1, string2, maxDistance)
    \/ TakeResult

SpecDist == InitDist /\ [][NextDist]_vars

\* The kernel called with absent strings and with bounds of either sign.
OptionalTerms == Terms \cup {Null}

AnyDistances == (0 - 2)..(MaxLen + 1)

NextAbsent ==
    \/ /\ call = NoCall
       /\ \E string1 \in OptionalTerms, string2 \in OptionalTerms,
             maxDistance \in AnyDistances :
             Distance(string1, string2, maxDistance)
    \/ TakeResult

SpecAbsent == InitDist /\ [][NextAbsent]_vars

\* ------------------------------------------------------- building the index
\* Constructor arguments: maxDictionaryEditDistance M, prefixLength P >= M
\* (up to the longest term, where no term is cut) and countThreshold T.
EditDistances == 0..2

Thresholds == 0..2

\* Counts handed to createDictionaryEntry: none, small ones, and one that a
\* second count takes to Number.MAX_SAFE_INTEGER and beyond.
Counts == {0, 1, 2, MAX_SAFE_INTEGER - 1}

InitIndex ==
    /\ maxDictionaryEditDistance \in EditDistances
    /\ prefixLength \in maxDictionaryEditDistance..MaxLen
    /\ countThreshold \in Thresholds
    /\ EmptyIndex
    /\ entries = 0
    /\ distanceComparer = NewEditDistance
    /\ call = NoCall

\* symSpell.createDictionaryEntry(key, count)
CreateDictionaryEntry(key, count) ==
    /\ entries < MaxEntries
    /\ call.op \notin Queries
    /\ LET r == createDictionaryEntry(key, count)
       IN  /\ IndexBecomes(r)
           /\ call' = [op |-> "createDictionaryEntry", key |-> key, count |-> count,
                       ret |-> r.ret,
                       fresh |-> ~Has(words, key) /\ ~Has(belowThresholdWords, key)]
    /\ entries' = entries + 1
    /\ UNCHANGED <<config, bigramIndex, distanceComparer>>

NextIndex ==
    \E key \in Terms, count \in Counts : CreateDictionaryEntry(key, count)

SpecIndex == InitIndex /\ [][NextIndex]_vars

\* Staging below the threshold: thresholds up to 3, so that a second count can
\* leave a term staged, and counts of either sign.
StagingThresholds == 0..3

StagingCounts == {0 - 1, 0, 1, 2, MAX_SAFE_INTEGER - 1}

InitStaging ==
    /\ maxDictionaryEditDistance \in 0..1
    /\ prefixLength = MaxLen
    /\ countThreshold \in StagingThresholds
    /\ EmptyIndex
    /\ entries = 0
    /\ distanceComparer = NewEditDistance
    /\ call = NoCall

NextStaging ==
    \E key \in ShortTerms, count \in StagingCounts : CreateDictionaryEntry(key, count)

SpecStaging == InitStaging /\ [][NextStaging]_vars

\* ------------------------------------------------------------- looking up
\* Thresholds of the indexes looked up: every count kept, or a first count of
\* one staged below the threshold.
LookupThresholds == {1, 2}

\* Counts of the dictionary's lines.
LookupCounts == {1, 2}

\* The option settings of the lookups made: none set.
OptionSettings == {NoOptions}

InitLookup ==
    /\ maxDictionaryEditDistance \in EditDistances
    /\ prefixLength \in maxDictionaryEditDistance..MaxLen
    /\ countThreshold \in LookupThresholds
    /\ EmptyIndex
    /\ entries = 0
    /\ distanceComparer = NewEditDistance
    /\ call = NoCall

\* symSpell.lookup(input, verbosity, maxEditDistance, options), the caller
\* having taken the previous result. The index is only read. lookup has no
\* throw statement: whatever the arguments, the call ends by returning its list.
Lookup(input, verbosity, maxEditDistance, options) ==
    /\ call = NoCall
    /\ call' = [op |-> "lookup", input |-> input, verbosity |-> verbosity,
                maxEditDistance |-> maxEditDistance, options |-> options,
                threw |-> FALSE,
                ret |-> lookup(input, verbosity, maxEditDistance, options)]
    /\ UNCHANGED <<config, bigramIndex, index, entries, distanceComparer>>

NextLookup ==
    \/ \E key \in Terms, count \in LookupCounts : CreateDictionaryEntry(key, count)
    \/ /\ call = NoCall
       /\ \E input \in Terms, verbosity \in Verbosities,
             maxEditDistance \in 0..maxDictionaryEditDistance :
             \E options \in OptionSettings :
                Lookup(input, verbosity, maxEditDistance, options)
    \/ TakeResult

SpecLookup == InitLookup /\ [][NextLookup]_vars

\* Lookups with options set and with any bound up to one past the index's, on
\* indexes of words shorter than the longest input.

\* Inputs of up to two characters, in either case.
CasedLetters == {"a", "b", "A"}

CasedInputs ==
    {<<>>} \cup {<<x>> : x \in CasedLetters}
           \cup {<<x, y>> : x \in CasedLetters, y \in CasedLetters}

\* Every setting of the three options; ignoreToken, when given, matches the
\* input as lookup matches it.
AllOptionSettings(input) ==
    {[includeUnknown |-> u, ignoreToken |-> t, transferCasing |-> c] :
        u \in BOOLEAN, c \in BOOLEAN, t \in {{}, {input}, {toLowerCase(input)}}}

InitOptions ==
    /\ maxDictionaryEditDistance \in EditDistances
    /\ prefixLength \in maxDictionaryEditDistance..MaxLen
    /\ countThreshold = 1
    /\ EmptyIndex
    /\ entries = 0
    /\ distanceComparer = NewEditDistance
    /\ call = NoCall

NextOptions ==
    \/ \E key \in ShortTerms : CreateDictionaryEntry(key, 1)
    \/ /\ call = NoCall
       /\ \E input \in CasedInputs, verbosity \in Verbosities,
             maxEditDistance \in 0..(maxDictionaryEditDistance + 1) :
             \E options \in AllOptionSettings(input) :
                Lookup(input, verbosity, maxEditDistance, options)
    \/ TakeResult

SpecOptions == InitOptions /\ [][NextOptions]_vars

\* ------------------------------------------------- the index and lookupCompound
MaxBigrams == 1

CompoundCounts == {1, 2}

\* Lines of a bigram file, split at the separator ' ': two terms and a count.
BigramLines ==
    {<<t1, t2, c>> : t1 \in TermsOfLen(1), t2 \in TermsOfLen(1),
                     c \in {<<"3">>}}

\* The body of the loop of loadBigramDictionary for one line, with the
\* default separator ' ' (lines 158-172).
LoadBigramLine(lineParts, termIndex, countIndex) ==
    /\ Cardinality(DOMAIN bigrams) < MaxBigrams
    /\ call.op \notin Queries
    /\ IF Len(lineParts) >= 3
       THEN LET key == lineParts[termIndex + 1] \o <<" ">> \o lineParts[termIndex + 2]
                count == parseInt(lineParts[countIndex + 1]).value
            IN  /\ bigrams' = MapSet(bigrams, key, count)
                /\ bigramCountMin' = IF count < bigramCountMin
                                     THEN count ELSE bigramCountMin
       ELSE UNCHANGED bigramIndex
    /\ call' = [op |-> "loadBigramDictionary", lineParts |-> lineParts]
    /\ UNCHANGED <<config, index, entries, distanceComparer>>

CompoundLetters == {"a", "b", " "}

MixedLetters == {"a", "A", "0", "1", " ", "'"}

\* Lower-case inputs of up to MaxLen + 1 characters, spaces included.
LowerInputs == UNION {[1..n -> CompoundLetters] : n \in 0..(MaxLen + 1)}

\* Inputs with capitals, digits and apostrophes, of up to MaxLen - 1
\* characters.
MixedInputs == UNION {[1..n -> MixedLetters] : n \in 0..(MaxLen - 1)}

AllCompoundOptions == [ignoreNonWords : BOOLEAN, transferCasing : BOOLEAN]

LookupCompound(input, maxEditDistance, options) ==
    /\ call = NoCall
    /\ call' = [op |-> "lookupCompound", input |-> input,
                maxEditDistance |-> maxEditDistance, options |-> options,
                made |-> lookupCompound(input, maxEditDistance, options)]
    /\ UNCHANGED <<config, bigramIndex, index, entries, distanceComparer>>

\* The calls made: lower-case inputs without options, mixed ones with every
\* setting of the options.
CompoundCalls ==
    (LowerInputs \X {NoCompoundOptions}) \cup (MixedInputs \X AllCompoundOptions)

NextCompound ==
    \/ \E key \in ShortTerms, count \in CompoundCounts :
          CreateDictionaryEntry(key, count)
    \/ \E lineParts \in BigramLines : LoadBigramLine(lineParts, 0, 2)
    \/ /\ call = NoCall
       /\ \E c \in CompoundCalls, maxEditDistance \in 0..maxDictionaryEditDistance :
             LookupCompound(c[1], maxEditDistance, c[2])
    \/ TakeResult

InitCompound ==
    /\ maxDictionaryEditDistance \in 0..1
    /\ prefixLength = MaxLen
    /\ countThreshold = 1
    /\ EmptyIndex
    /\ entries = 0
    /\ distanceComparer = NewEditDistance
    /\ call = NoCall

SpecCompound == InitCompound /\ [][NextCompound]_vars

\* Inputs of several tokens: up to MaxTokens of the tokens a, b and 1, with
\* one space between them.
MaxTokens == 3

CombiTokens == {<<"a">>, <<"b">>, <<"1">>}

RECURSIVE JoinedBySpaces(_, _)
JoinedBySpaces(tokens, i) ==
    IF i > Len(tokens) THEN <<>>
    ELSE IF i = Len(tokens) THEN tokens[i]
    ELSE tokens[i] \o <<" ">> \o JoinedBySpaces(tokens, i + 1)

CombiInputs ==
    {JoinedBySpaces(tokens, 1) :
        tokens \in UNION {[1..n -> CombiTokens] : n \in 1..MaxTokens}}

NextCombi ==
    \/ \E key \in ShortTerms : CreateDictionaryEntry(key, 1)
    \/ /\ call = NoCall
       /\ \E input \in CombiInputs, ignoreNonWords \in BOOLEAN,
             maxEditDistance \in 0..maxDictionaryEditDistance :
             LookupCompound(input, maxEditDistance,
                            [ignoreNonWords |-> ignoreNonWords,
                             transferCasing |-> FALSE])
    \/ TakeResult

SpecCombi == InitCompound /\ [][NextCombi]_vars


\* ----------------------------------------------- the index and wordSegmentation
SegmentCounts == {1, 2}

\* The terms entered: the one-letter terms, two terms of two letters and one
\* of three.
SegmentTerms ==
    TermsOfLen(1) \cup {<<"a", "a">>, <<"a", "b">>, <<"a", "a", "a">>}

\* The arguments given for maxSegmentationWordLength, null among them.
SegmentLengths == {Undef} \cup 0..2 \cup {MaxLen + 1}

SegmentOptions ==
    [maxEditDistance : {Undef} \cup 0..maxDictionaryEditDistance,
     maxSegmentationWordLength : SegmentLengths,
     ignoreToken : {{}}]

WordSegmentation(input, options) ==
    /\ call = NoCall
    /\ call' = [op |-> "wordSegmentation", input |-> input, options |-> options,
                ret |-> wordSegmentation(input, options)]
    /\ UNCHANGED <<config, bigramIndex, index, entries, distanceComparer>>

NextSegment ==
    \/ \E key \in SegmentTerms, count \in SegmentCounts :
          CreateDictionaryEntry(key, count)
    \/ /\ call = NoCall
       /\ \E input \in LowerInputs, options \in SegmentOptions :
             WordSegmentation(input, options)
    \/ TakeResult

SpecSegment == InitCompound /\ [][NextSegment]_vars

\* ------------------------------------------------------- the three queries
\* Inputs of up to MaxLen characters, spaces included.
QueryInputs == UNION {[1..n -> CompoundLetters] : n \in 0..MaxLen}

\* The queries made, each with its defaults.
QueryCalls ==
    [op : {"lookup"}, input : Terms, verbosity : Verbosities,
     maxEditDistance : 0..maxDictionaryEditDistance]
        \cup [op : {"lookupCompound", "wordSegmentation"}, input : QueryInputs,
              verbosity : {TOP}, maxEditDistance : 0..maxDictionaryEditDistance]

SegmentDefaults(maxEditDistance) ==
    [maxEditDistance |-> maxEditDistance, maxSegmentationWordLength |-> Undef,
     ignoreToken |-> {}]

\* What the caller of query q gets; looked[<<t, verbosity>>] is
\* this.lookup(t, verbosity, q.maxEditDistance).
Answered(q, looked) ==
    CASE q.op = "lookup" ->
            [op |-> "lookup", input |-> q.input, verbosity |-> q.verbosity,
             maxEditDistance |-> q.maxEditDistance, options |-> NoOptions,
             threw |-> FALSE, ret |-> looked[<<q.input, q.verbosity>>]]
      [] q.op = "lookupCompound" ->
            [op |-> "lookupCompound", input |-> q.input,
             maxEditDistance |-> q.maxEditDistance, options |-> NoCompoundOptions,
             made |-> lookupCompoundWith(q.input, q.maxEditDistance,
                                         NoCompoundOptions,
                                         [t \in Seq(Alnum \cup Apostrophes) |->
                                             looked[<<t, TOP>>]])]
      [] q.op = "wordSegmentation" ->
            [op |-> "wordSegmentation", input |-> q.input,
             options |-> SegmentDefaults(q.maxEditDistance),
             ret |-> wordSegmentationWith(q.input,
                                          SegmentDefaults(q.maxEditDistance),
                                          [t \in Seq(Alnum \cup Apostrophes) |->
                                              looked[<<t, TOP>>]])]

\* A query that counts the use of a word of the index it is asked for.
QueryCountingTheInput(q) ==
    /\ call = NoCall
    /\ call' = Answered(q, [a \in Seq(Alnum \cup Apostrophes) \X Verbosities |->
                               lookup(a[1], a[2], q.maxEditDistance, NoOptions)])
    /\ words' = IF Has(words, q.input)
                THEN MapSet(words, q.input, SaturatingAdd(words[q.input], 1))
                ELSE words
    /\ UNCHANGED <<config, bigramIndex, belowThresholdWords, deletes,
                   maxDictionaryWordLength, entries, distanceComparer>>

\* symSpell.lookup, symSpell.lookupCompound or symSpell.wordSegmentation, the
\* caller having taken the previous result: the three read the index through
\* this.lookup and write nothing of the instance.
Query(q) ==
    /\ call = NoCall
    /\ call' = Answered(q, [a \in Seq(Alnum \cup Apostrophes) \X Verbosities |->
                               lookup(a[1], a[2], q.maxEditDistance, NoOptions)])
    /\ UNCHANGED <<config, bigramIndex, index, entries, distanceComparer>>

NextQueries ==
    \/ \E key \in ShortTerms, count \in CompoundCounts :
          CreateDictionaryEntry(key, count)
    \/ \E lineParts \in BigramLines : LoadBigramLine(lineParts, 0, 2)
    \/ /\ call = NoCall
       /\ \E q \in QueryCalls : Query(q)
    \/ TakeResult

SpecQueries == InitCompound /\ [][NextQueries]_vars

\* ------------------------------------------------------- the index and the loader
LineLetters == {"a", "1", " "}

\* Lines of up to MaxLen characters, and the lines of three fields of one
\* character.
Lines ==
    UNION {[1..n -> LineLetters] : n \in 0..MaxLen}
        \cup {<<x, " ", y, " ", z>> : x, y, z \in {"a", "1"}}

FieldIndexes == 0..2

\* No count stored is NaN.
NoNaNStored ==
    /\ \A key \in DOMAIN words : words[key] # NaN
    /\ \A key \in DOMAIN belowThresholdWords : belowThresholdWords[key] # NaN

\* The loop of loadDictionary goes on: the model stops reading at a line that
\* throws and at a NaN count.
Reading ==
    /\ entries < MaxEntries
    /\ call.op \notin Queries
    /\ NoNaNStored
    /\ call.op = "loadDictionary" => ~call.threw

\* One line read by loadDictionary with the separator ' '.
LoadDictionaryLine(line, termIndex, countIndex) ==
    /\ Reading
    /\ LET r == loadDictionaryLine(line, termIndex, countIndex, " ")
       IN  /\ IndexBecomes(r)
           /\ call' = [op |-> "loadDictionary", line |-> line,
                       lineParts |-> split(trim(line), " ", 1, <<>>),
                       termIndex |-> termIndex, countIndex |-> countIndex,
                       threw |-> r.threw]
    /\ entries' = entries + 1
    /\ UNCHANGED <<config, bigramIndex, distanceComparer>>

InitLoad ==
    /\ maxDictionaryEditDistance = 1
    /\ prefixLength = MaxLen
    /\ countThreshold \in 1..2
    /\ EmptyIndex
    /\ entries = 0
    /\ distanceComparer = NewEditDistance
    /\ call = NoCall

NextLoad ==
    /\ Reading
    /\ \E line \in Lines, termIndex \in FieldIndexes, countIndex \in FieldIndexes :
          LoadDictionaryLine(line, termIndex, countIndex)

SpecLoad == InitLoad /\ [][NextLoad]_vars

\* ------------------------------------------------------- the casing helper
\* Texts of letters of either case, a digit, a space and a punctuation mark.
CasingLetters == {"a", "A", "b", "1", " ", "!"}

MaxCasingLen == 2

CasingTexts == UNION {[1..n -> CasingLetters] : n \in 0..MaxCasingLen}

\* Helpers.transferCasingMatching(textWithCasing, textWithoutCasing), called
\* on its own: the index takes no part.
TransferCasingMatching(textWithCasing, textWithoutCasing) ==
    /\ call = NoCall
    /\ call' = [op |-> "transferCasingMatching",
                textWithCasing |-> textWithCasing,
                textWithoutCasing |-> textWithoutCasing,
                ret |-> transferCasingMatching(textWithCasing, textWithoutCasing)]
    /\ UNCHANGED <<config, bigramIndex, index, entries, distanceComparer>>

NextCasing ==
    \/ /\ call = NoCall
       /\ \E textWithCasing \in CasingTexts, textWithoutCasing \in CasingTexts :
             TransferCasingMatching(textWithCasing, textWithoutCasing)
    \/ TakeResult

SpecCasing == InitDist /\ [][NextCasing]_vars

\* ------------------------------------------------------------ the claims
\* A lookup without options, at this verbosity, has returned.
LookedUp(verbosity) ==
    /\ call.op = "lookup"
    /\ call.verbosity = verbosity
    /\ call.options = NoOptions

\* The terms of Words within OSA distance k of input.
Within(input, k) == {t \in DOMAIN words : OSA(input, t) <= k}

\* The least distance from input over a non-empty set of terms.
MinDistance(input, terms) ==
    CHOOSE d \in {OSA(input, t) : t \in terms} : \A t \in terms : d <= OSA(input, t)

\* The terms of the list returned.
ReturnedTerms == {call.ret[i].term : i \in DOMAIN call.ret}

\* C1: lookup(input, ALL, k) with k <= M and no options returns exactly the
\* terms of Words whose OSA distance to input is <= k, and the distance reported
\* for each returned term is that OSA distance.
C1_AllReturnsTermsWithinK ==
    LookedUp(ALL) /\ call.maxEditDistance <= maxDictionaryEditDistance
        => /\ ReturnedTerms = Within(call.input, call.maxEditDistance)
           /\ \A i \in DOMAIN call.ret :
                 call.ret[i].distance = OSA(call.input, call.ret[i].term)

\* With prefixLength > maxEditDistance, the one-character word "a" at distance
\* 1 of the input "ab" is returned a second time at distance 2.
C1_Witness ==
    /\ LookedUp(ALL)
    /\ prefixLength > maxDictionaryEditDistance
    /\ call.input = <<"a", "b">>
    /\ Has(words, <<"a">>)
    /\ \E i, j \in DOMAIN call.ret :
          /\ call.ret[i] = SuggestItem(<<"a">>, 1, words[<<"a">>])
          /\ call.ret[j] = SuggestItem(<<"a">>, 2, words[<<"a">>])

\* C2: lookup(input, TOP, k) with k <= M returns at most one suggestion, and
\* when some term of Words is within OSA distance k of input exactly one: at
\* the least distance over Words, with the greatest count among the terms of
\* Words at that distance.
C2_TopReturnsTheBest ==
    LookedUp(TOP) /\ call.maxEditDistance <= maxDictionaryEditDistance
        => LET near == Within(call.input, call.maxEditDistance)
           IN  /\ Len(call.ret) <= 1
               /\ near # {}
                    => /\ Len(call.ret) = 1
                       /\ call.ret[1].distance = MinDistance(call.input, near)
                       /\ \A t \in near :
                             OSA(call.input, t) = MinDistance(call.input, near)
                                => call.ret[1].count >= words[t]
                       /\ \E t \in near :
                             /\ OSA(call.input, t) = MinDistance(call.input, near)
                             /\ call.ret[1].count = words[t]

\* With prefixLength = maxEditDistance a term of Words within k of the input
\* is there and lookup(input, TOP, k) returns nothing.
C2_Witness ==
    /\ LookedUp(TOP)
    /\ prefixLength = maxDictionaryEditDistance
    /\ Within(call.input, call.maxEditDistance) # {}
    /\ call.ret = <<>>

\* C3: the terms lookup(input, CLOSEST, k) returns, k <= M, are exactly the
\* terms of Words at the least OSA distance d_min <= k of input (none when no
\* term is within k), each returned with distance d_min.
C3_ClosestReturnsAllNearest ==
    LookedUp(CLOSEST) /\ call.maxEditDistance <= maxDictionaryEditDistance
        => LET near == Within(call.input, call.maxEditDistance)
           IN  IF near = {}
               THEN call.ret = <<>>
               ELSE /\ ReturnedTerms =
                          {t \in near : OSA(call.input, t) = MinDistance(call.input, near)}
                    /\ \A i \in DOMAIN call.ret :
                          call.ret[i].distance = MinDistance(call.input, near)

\* With prefixLength = maxEditDistance lookup(input, CLOSEST, k) returns some
\* of the terms at the least distance and misses another.
C3_Witness ==
    /\ LookedUp(CLOSEST)
    /\ prefixLength = maxDictionaryEditDistance
    /\ call.ret # <<>>
    /\ \E t \in Within(call.input, call.maxEditDistance) :
          /\ OSA(call.input, t) =
                MinDistance(call.input, Within(call.input, call.maxEditDistance))
          /\ t \notin ReturnedTerms

C5_OrderedByDistanceThenCount ==
    call.op = "lookup"
        => \A i \in 1..(Len(call.ret) - 1) :
              \/ call.ret[i].distance < call.ret[i + 1].distance
              \/ /\ call.ret[i].distance = call.ret[i + 1].distance
                 /\ call.ret[i].count >= call.ret[i + 1].count

\* Two words at the same distance returned with the greater count first,
\* though the smaller count was filed, and so found, first.
C5_Witness ==
    /\ call.op = "lookup"
    /\ Len(call.ret) = 2
    /\ call.ret[1].distance = call.ret[2].distance
    /\ call.ret[1].count > call.ret[2].count
    /\ \E d \in DOMAIN deletes :
          deletes[d] = <<call.ret[2].term, call.ret[1].term>>

\* C11: with both strings absent distance returns 0 whatever the bound; with
\* exactly one absent it returns the length of the other when that is
\* <= maxDistance and -1 otherwise; with both present and maxDistance <= 0 it
\* returns 0 for identical strings and -1 otherwise.
C11_AbsentStringsAndNonPositiveBounds ==
    call.op = "distance"
        => LET s1 == call.string1
               s2 == call.string2
               k == call.maxDistance
           IN  /\ (s1 = Null /\ s2 = Null) => call.ret = 0
               /\ (s1 = Null /\ s2 # Null)
                     => call.ret = (IF Len(s2) <= k THEN Len(s2) ELSE -1)
               /\ (s1 # Null /\ s2 = Null)
                     => call.ret = (IF Len(s1) <= k THEN Len(s1) ELSE -1)
               /\ (s1 # Null /\ s2 # Null /\ k <= 0)
                     => call.ret = (IF s1 = s2 THEN 0 ELSE -1)

\* On an instance whose buffers an earlier call has filled, a call with one
\* string absent and a negative bound returned -1 for the empty string.
C11_Witness ==
    /\ call.op = "distance"
    /\ call.string1 = Null
    /\ call.string2 = <<>>
    /\ call.maxDistance < 0
    /\ call.ret = -1
    /\ call.edBefore # NewEditDistance

\* C12: a lookup whose maxEditDistance is larger than the maxEditDistance the
\* index was constructed with ends in a caller error and returns no list.
C12_BoundAboveIndexIsRefused ==
    call.op = "lookup" /\ call.maxEditDistance > maxDictionaryEditDistance
        => call.threw

\* A lookup with a bound above the index's returned a word at a distance
\* above the index's maxEditDistance.
C12_Witness ==
    /\ call.op = "lookup"
    /\ call.maxEditDistance > maxDictionaryEditDistance
    /\ ~call.threw
    /\ \E i \in DOMAIN call.ret :
          /\ Has(words, call.ret[i].term)
          /\ call.ret[i].distance > maxDictionaryEditDistance

\* C13: in every index state, for every verbosity and k, a lookup whose
\* ignoreToken predicate matches the input returns a list that contains the
\* suggestion (input, 0, 1).
C13_IgnoredTokenIsReturned ==
    (/\ call.op = "lookup"
     /\ ~call.options.transferCasing
     /\ call.input \in call.options.ignoreToken)
        => \E i \in DOMAIN call.ret : call.ret[i] = SuggestItem(call.input, 0, 1)

\* C13 as amended: the same when the input is not longer than the longest word
\* by more than k, and the verbosity is ALL or the input is no word.
C13_IgnoredTokenIsReturnedPastTheEarlyExits ==
    (/\ call.op = "lookup"
     /\ ~call.options.transferCasing
     /\ call.input \in call.options.ignoreToken
     /\ Len(call.input) - call.maxEditDistance <= maxDictionaryWordLength
     /\ (call.verbosity = ALL \/ ~Has(words, call.input)))
        => \E i \in DOMAIN call.ret : call.ret[i] = SuggestItem(call.input, 0, 1)

\* With ALL and k > 0 the ignored input, which is no word, is returned next
\* to a word the candidates led to.
C13_Witness ==
    /\ call.op = "lookup"
    /\ ~call.options.transferCasing
    /\ call.input \in call.options.ignoreToken
    /\ call.verbosity = ALL
    /\ call.maxEditDistance > 0
    /\ ~Has(words, call.input)
    /\ Len(call.ret) >= 2
    /\ \E i \in DOMAIN call.ret : call.ret[i] = SuggestItem(call.input, 0, 1)

\* The list the same lookup returns for the lower-cased input with
\* transferCasing unset.
PlainLookup ==
    lookup(toLowerCase(call.input), call.verbosity, call.maxEditDistance,
           [call.options EXCEPT !.transferCasing = FALSE])

\* C14: with transferCasing set, on every return path, the list is that of the
\* lookup of the lower-cased input without the option (same distances and
\* counts), each term t replaced by transferCasingSimilar(originalInput, t).
C14_CasingTransferredOnEveryPath ==
    (/\ call.op = "lookup"
     /\ call.options.transferCasing
     /\ ~call.options.includeUnknown
     /\ call.options.ignoreToken = {})
        => /\ Len(call.ret) = Len(PlainLookup)
           /\ \A i \in DOMAIN call.ret :
                 /\ call.ret[i].distance = PlainLookup[i].distance
                 /\ call.ret[i].count = PlainLookup[i].count
                 /\ call.ret[i].term =
                       transferCasingSimilar(call.input, PlainLookup[i].term)

\* The upper-case input "A", whose lower-case form is a word, got "a" back at
\* distance 0 from a lookup with transferCasing and k > 0.
C14_Witness ==
    /\ call.op = "lookup"
    /\ call.options.transferCasing
    /\ ~call.options.includeUnknown
    /\ call.options.ignoreToken = {}
    /\ call.input = <<"A">>
    /\ call.maxEditDistance > 0
    /\ call.ret = <<SuggestItem(<<"a">>, 0, 1)>>

\* The tokens of the input of the lookupCompound call made.
Tokens == parseWordsCase(call.input, FALSE)

\* The terms of Words within OSA distance k of a string of any characters.
Near(string, k) ==
    {t \in DOMAIN words : OSARef(string, t, Len(string), Len(t)) <= k}

\* No term of Words is within k of a token, of two adjacent tokens put
\* together, or of both halves of a split of a token.
NothingNear(tokens, k) ==
    \A i \in DOMAIN tokens :
        /\ Near(tokens[i], k) = {}
        /\ i > 1 => Near(tokens[i - 1] \o tokens[i], k) = {}
        /\ \A j \in 1..(Len(tokens[i]) - 1) :
              \/ Near(SubSeq(tokens[i], 1, j), k) = {}
              \/ Near(SubSeq(tokens[i], j + 1, Len(tokens[i])), k) = {}

\* C15: lookupCompound returns exactly one suggestion; when no term of Words is
\* within maxEditDistance of a token, of two adjacent tokens put together, or of
\* both halves of a split of a token, every token was appended as a part with
\* distance maxEditDistance + 1 and the term returned is the lower-cased tokens
\* joined by single spaces.
C15_OneSuggestionAndUnknownTokensKept ==
    call.op = "lookupCompound" =>
        /\ Len(call.made.ret) = 1
        /\ (call.options = NoCompoundOptions
               /\ NothingNear(Tokens, call.maxEditDistance))
             => /\ call.made.ret[1].term = JoinedBySpaces(Tokens, 1)
                /\ Len(call.made.parts) = Len(Tokens)
                /\ \A i \in DOMAIN Tokens :
                      /\ call.made.parts[i].term = Tokens[i]
                      /\ call.made.parts[i].distance = call.maxEditDistance + 1

\* Two unknown tokens, one of them long enough to be split, with k = 1 and a
\* dictionary that is not empty.
C15_Witness ==
    /\ call.op = "lookupCompound"
    /\ call.options = NoCompoundOptions
    /\ call.maxEditDistance = 1
    /\ DOMAIN words # {}
    /\ Len(Tokens) = 2
    /\ Len(Tokens[1]) = 2
    /\ NothingNear(Tokens, 1)
    /\ call.made.ret[1].term = call.input

\* The tokens of the input of the lookupCompound call made, in their own case.
CasedTokens == parseWordsCase(call.input, TRUE)

\* A token of digits only, or of two or more characters of [A-Z0-9] only.
NonWord(token) ==
    \/ Len(token) >= 1 /\ \A x \in DOMAIN token : token[x] \in Digits
    \/ Len(token) >= 2 /\ \A x \in DOMAIN token : token[x] \in CapsOrDigits

RECURSIVE SplitAtSpaces(_, _, _)
\* The space-separated words of a string.
SplitAtSpaces(string, i, word) ==
    IF i > Len(string) THEN {word}
    ELSE IF string[i] = " " THEN {word} \cup SplitAtSpaces(string, i + 1, <<>>)
    ELSE SplitAtSpaces(string, i + 1, Append(word, string[i]))

\* C16: with ignoreNonWords, a token is appended verbatim as a part of distance
\* 0 and count 0 exactly when it is digits only or, in its own case, two or more
\* characters of [A-Z0-9] only; and every such token is a space-separated word
\* of the term returned.
C16_NonWordsKeptVerbatim ==
    (/\ call.op = "lookupCompound"
     /\ call.options.ignoreNonWords
     /\ ~call.options.transferCasing)
        => /\ Len(call.made.parts) = Len(CasedTokens)
                => \A i \in DOMAIN CasedTokens :
                      NonWord(CasedTokens[i])
                          <=> call.made.parts[i] = SuggestItem(CasedTokens[i], 0, 0)
           /\ \A i \in DOMAIN CasedTokens :
                 NonWord(CasedTokens[i])
                     => CasedTokens[i]
                            \in SplitAtSpaces(call.made.ret[1].term, 1, <<>>)

\* The input "0" was given with ignoreNonWords and came back as the word "a".
C16_Witness ==
    /\ call.op = "lookupCompound"
    /\ call.options.ignoreNonWords
    /\ ~call.options.transferCasing
    /\ call.input = <<"0">>
    /\ call.made.ret[1].term = <<"a">>

RECURSIVE IsConcatenation(_)
\* string is a concatenation, without spaces, of terms of Words.
IsConcatenation(string) ==
    \/ string = <<>>
    \/ \E n \in 1..Len(string) :
          /\ Has(words, SubSeq(string, 1, n))
          /\ IsConcatenation(SubSeq(string, n + 1, Len(string)))

\* The maxSegmentationWordLength the call made works with.
SegmentationWordLength == SegmentWordLength(call.options)

\* A call with maxEditDistance = 0 on a concatenation of terms of Words, with
\* parts as long as the longest term allowed.
ConcatenationSegmented ==
    /\ call.op = "wordSegmentation"
    /\ call.options.maxEditDistance = 0
    /\ SegmentationWordLength >= maxDictionaryWordLength
    /\ IsConcatenation(call.input)

\* The correctedString returned gives back the input when its spaces are
\* removed, and each of its space-separated words is a term of Words.
NaturallySpaced ==
    /\ ~call.ret.threw
    /\ call.ret.value # Undefined
    /\ SelectSeq(call.ret.value.correctedString, NotWhitespace) = call.input
    /\ SplitAtSpaces(call.ret.value.correctedString, 1, <<>>) \subseteq DOMAIN words

\* C17: with maxEditDistance = 0, for an input that is a concatenation of terms
\* of Words, the correctedString returned is the naturally-spaced form of the
\* input.
C17_SegmentationIdempotence == ConcatenationSegmented => NaturallySpaced

\* With the words aa and aaa, the input aaaa came back as "aaa a".
C17_Witness ==
    /\ ConcatenationSegmented
    /\ DOMAIN words = {<<"a", "a">>, <<"a", "a", "a">>}
    /\ call.input = <<"a", "a", "a", "a">>
    /\ ~call.ret.threw
    /\ call.ret.value # Undefined
    /\ call.ret.value.correctedString = <<"a", "a", "a", " ", "a">>

\* C18: wordSegmentation returns a composition record, for every input and
\* every index, the empty ones included.
C18_ACompositionIsReturned ==
    call.op = "wordSegmentation"
        => /\ ~call.ret.threw
           /\ call.ret.value # Undefined

\* The empty input was segmented and undefined came back.
C18_Witness ==
    /\ call.op = "wordSegmentation"
    /\ call.input = <<>>
    /\ ~call.ret.threw
    /\ call.ret.value = Undefined

\* C19: a line that splits into fewer than max(termIndex, countIndex) + 1
\* fields is skipped: reading it leaves Words, Below-threshold, Deletes and
\* maxWordLength unchanged.
C19_ShortLinesAreSkipped ==
    [][(/\ call'.op = "loadDictionary"
        /\ Len(call'.lineParts) < Max(call'.termIndex, call'.countIndex) + 1)
           => UNCHANGED index]_vars

\* The line "a 1" was read with termIndex 0 and countIndex 2, and a is in
\* Words with the count NaN.
C19_Witness ==
    /\ call.op = "loadDictionary"
    /\ call.lineParts = <<<<"a">>, <<"1">>>>
    /\ call.termIndex = 0
    /\ call.countIndex = 2
    /\ Has(words, <<"a">>)
    /\ words[<<"a">>] = NaN

\* The upper-case letters.
UpperCaseLetters == DOMAIN LowerOf

\* transferCasingMatching has returned for two texts of equal length.
MatchingTextsCased ==
    /\ call.op = "transferCasingMatching"
    /\ Len(call.textWithCasing) = Len(call.textWithoutCasing)

\* C20: for src and dst of equal length over letters, digits, spaces and
\* punctuation, transferCasingMatching(src, dst) has the length of dst, and at
\* every position its character is dst[i] uppercased when src[i] is an
\* upper-case letter and dst[i] lowercased for every other src[i].
C20_CasingFromUpperCaseLettersOnly ==
    MatchingTextsCased =>
        /\ Len(call.ret) = Len(call.textWithoutCasing)
        /\ \A i \in 1..Len(call.textWithoutCasing) :
              call.ret[i] = IF call.textWithCasing[i] \in UpperCaseLetters
                            THEN toUpperCaseChar(call.textWithoutCasing[i])
                            ELSE toLowerCaseChar(call.textWithoutCasing[i])

\* transferCasingMatching('1a', 'ab') has returned 'Ab'.
C20_Witness ==
    /\ MatchingTextsCased
    /\ call.textWithCasing = <<"1", "a">>
    /\ call.textWithoutCasing = <<"a", "b">>
    /\ call.ret = <<"A", "b">>

\* The count stored for a term in either table, 0 for a term of neither: the sum
\* of the counts given for it so far.
Stored(w, b, t) == IF Has(b, t) THEN b[t] ELSE IF Has(w, t) THEN w[t] ELSE 0

\* min(s + c, MAX_SAFE_INTEGER)
CappedSum(s, c) == IF s >= MAX_SAFE_INTEGER - c THEN MAX_SAFE_INTEGER ELSE s + c

\* t is appended to the buckets of some keys, its prefix among them, and
\* nothing else of Deletes changes.
FiledAtThisCall(t) ==
    /\ DOMAIN deletes \subseteq DOMAIN deletes'
    /\ \A d \in DOMAIN deletes' :
          LET before == IF Has(deletes, d) THEN deletes[d] ELSE <<>>
          IN  deletes'[d] = before \/ deletes'[d] = Append(before, t)
    /\ Has(deletes', Prefix(t, prefixLength))
    /\ deletes'[Prefix(t, prefixLength)] =
          Append(IF Has(deletes, Prefix(t, prefixLength))
                 THEN deletes[Prefix(t, prefixLength)] ELSE <<>>, t)

\* C21: for countThreshold T > 1 and calls with positive counts, a term whose
\* counts so far sum to s is in Below-threshold with the stored count s exactly
\* when 0 < s < T and in Words with min(s, MAX_SAFE_INTEGER) exactly when
\* s >= T; it moves to Words at the first call at which s reaches T, and its
\* delete variants are added to Deletes at that call and at no other.
C21_StagedUntilTheThreshold ==
    [][(entries' = entries + 1 /\ countThreshold > 1 /\ call'.count > 0) =>
        LET t == call'.key
            s == CappedSum(Stored(words, belowThresholdWords, t), call'.count)
        IN  /\ Has(belowThresholdWords', t) <=> s < countThreshold
            /\ Has(words', t) <=> s >= countThreshold
            /\ Stored(words', belowThresholdWords', t) = s
            /\ \A u \in (DOMAIN words' \cup DOMAIN belowThresholdWords') \ {t} :
                  /\ Has(words', u) <=> Has(words, u)
                  /\ Has(belowThresholdWords', u) <=> Has(belowThresholdWords, u)
                  /\ Stored(words', belowThresholdWords', u)
                        = Stored(words, belowThresholdWords, u)
            /\ \A u \in DOMAIN belowThresholdWords' :
                  0 < belowThresholdWords'[u] /\ belowThresholdWords'[u] < countThreshold
            /\ \A u \in DOMAIN words' : words'[u] >= countThreshold
            /\ IF ~Has(words, t) /\ Has(words', t)
               THEN FiledAtThisCall(t)
               ELSE deletes' = deletes]_vars

\* With T = 3 a term was staged with the count 1 and a second count of 2 moved
\* it to Words with the count 3, filed under its prefix.
C21_Witness ==
    /\ countThreshold = 3
    /\ call.op = "createDictionaryEntry"
    /\ entries = 2
    /\ ~call.fresh
    /\ call.count = 2
    /\ call.ret = TRUE
    /\ Has(words, call.key)
    /\ words[call.key] = 3
    /\ ~Has(belowThresholdWords, call.key)
    /\ Has(deletes, call.key)

\* C22: in every state reached by createDictionaryEntry calls, whatever the
\* threshold and the counts (zero and negative included), the key sets of
\* Words and Below-threshold are disjoint.
C22_WordsAndBelowThresholdDisjoint ==
    DOMAIN words \cap DOMAIN belowThresholdWords = {}

\* With T = 2 a term staged below the threshold got a second count and is now
\* a key of Words only.
C22_Witness ==
    /\ countThreshold = 2
    /\ call.op = "createDictionaryEntry"
    /\ ~call.fresh
    /\ call.ret = TRUE
    /\ call.key \in DOMAIN words \ DOMAIN belowThresholdWords

RECURSIVE TokenStates(_, _, _, _, _, _, _)
\* The states of the loop over the tokens, before the first token and after
\* each: TokenLoop, keeping every S.
TokenStates(S, i, termList1, termList2, maxEditDistance, options, top) ==
    IF i > Len(termList1) THEN <<S>>
    ELSE <<S>> \o TokenStates(TokenStep(S, termList1[i],
                                         Skipped(termList1, termList2, i, options),
                                         top[termList1[i]],
                                         IF i > 1 /\ ~S.lastCombi
                                         THEN top[termList1[i - 1] \o termList1[i]]
                                         ELSE <<>>,
                                         maxEditDistance, top),
                              i + 1, termList1, termList2, maxEditDistance,
                              options, top)

\* The loop states of the lookupCompound call made: element i + 1 is the state
\* after token i.
CompoundStates ==
    TokenStates([parts |-> <<>>, lastCombi |-> FALSE, ed |-> NewEditDistance],
                1, Tokens,
                IF call.options.ignoreNonWords THEN CasedTokens ELSE <<>>,
                call.maxEditDistance, call.options,
                [t \in Seq(Alnum \cup Apostrophes) |->
                    lookup(t, TOP, call.maxEditDistance, NoOptions)])

\* Token i replaced the last part instead of adding one: it was merged with
\* token i - 1.
Merged(states, i) == Len(states[i + 1].parts) = Len(states[i].parts)

\* C24: lastCombi becomes true exactly when token i is merged with token i - 1,
\* the merged part replacing the last part; while it is true no merge is made
\* for the next token; so no two consecutive tokens are both merged, and the
\* number of parts never exceeds the number of tokens.
C24_LastCombiIsATwoStateMachine ==
    call.op = "lookupCompound" =>
        LET states == CompoundStates
        IN  /\ states[Len(states)].parts = call.made.parts
            /\ ~states[1].lastCombi
            /\ \A i \in DOMAIN Tokens :
                  /\ Len(states[i + 1].parts) \in
                        {Len(states[i].parts), Len(states[i].parts) + 1}
                  /\ (~states[i].lastCombi /\ states[i + 1].lastCombi)
                        <=> Merged(states, i)
                  /\ Merged(states, i) =>
                        /\ i > 1
                        /\ SubSeq(states[i + 1].parts, 1, Len(states[i].parts) - 1)
                              = SubSeq(states[i].parts, 1, Len(states[i].parts) - 1)
                  /\ states[i].lastCombi => ~Merged(states, i)
                  /\ (i > 1 /\ Merged(states, i - 1)) => ~Merged(states, i)
                  /\ Len(states[i + 1].parts) <= i

\* Of three tokens the second was merged with the first; the third was not
\* merged with the second, though a term is near the two put together.
C24_Witness ==
    /\ call.op = "lookupCompound"
    /\ Len(Tokens) = 3
    /\ Merged(CompoundStates, 2)
    /\ CompoundStates[3].lastCombi
    /\ ~Merged(CompoundStates, 3)
    /\ Near(Tokens[2] \o Tokens[3], call.maxEditDistance) # {}
    /\ Len(call.made.parts) = 2

RECURSIVE SegmentSteps(_, _, _, _, _, _)
\* The steps of the two loops of wordSegmentation in order, each with the
\* buffer it finds: StartLoop and PartLoop, keeping every W.
SegmentSteps(W, input, j, i, maxSegmentationWordLength, top) ==
    IF j >= Len(input) \/ W.threw THEN <<>>
    ELSE IF i > Min(Len(input) - j, maxSegmentationWordLength)
    THEN SegmentSteps(Advance(W), input, j + 1, 1, maxSegmentationWordLength, top)
    ELSE <<[j |-> j, i |-> i, W |-> W]>>
         \o SegmentSteps(Place(W, j, i, SegmentPart(input, j, i),
                               TopOf(SegmentPart(input, j, i),
                                     top[SegmentPart(input, j, i).part]),
                               maxSegmentationWordLength),
                         input, j, i + 1, maxSegmentationWordLength, top)

\* The steps of the wordSegmentation call made.
StepsOfTheCall ==
    SegmentSteps(NewCompositions(call.input, call.options), call.input, 0, 1,
                 SegmentWordLength(call.options),
                 [t \in Seq(Alnum \cup Apostrophes) |->
                    lookup(t, TOP, SegmentEditDistance(call.options),
                           [NoOptions EXCEPT
                               !.ignoreToken = call.options.ignoreToken])])

\* A wordSegmentation call on a non-empty input with
\* maxSegmentationWordLength >= 1.
SegmentedWithRoom ==
    /\ call.op = "wordSegmentation"
    /\ Len(call.input) >= 1
    /\ SegmentationWordLength >= 1

\* The two cells a step past j = 0 reads were written, and the one at
\* circularIndex holds a composition of input[0..j).
ReadsWhatWasWritten(step) ==
    LET W == step.W
        circular == CellAt(W.compositions, W.circularIndex)
        destination == CellAt(W.compositions,
                              (step.i + W.circularIndex) % Len(W.compositions))
    IN  /\ circular # Undefined
        /\ destination # Undefined
        /\ SelectSeq(circular.segmentedString, NotWhitespace)
              = SelectSeq(SubSeq(call.input, 1, step.j), NotWhitespace)

\* C25: for a non-empty input and maxSegmentationWordLength >= 1, the circular
\* buffer has min(maxSegmentationWordLength, |input|) cells, and at every step
\* with j > 0 compositions[circularIndex] and compositions[destinationIndex]
\* were written before they are read, compositions[circularIndex] holding a
\* composition of exactly input[0..j).
C25_CircularBufferReadAfterWrite ==
    SegmentedWithRoom =>
        /\ ~call.ret.threw
        /\ LET steps == StepsOfTheCall
           IN  \A n \in DOMAIN steps :
                  /\ Len(steps[n].W.compositions)
                        = Min(SegmentationWordLength, Len(call.input))
                  /\ steps[n].j > 0 => ReadsWhatWasWritten(steps[n])

\* An input longer than maxSegmentationWordLength = 2: the buffer of two cells
\* went round, and the call returned.
C25_Witness ==
    /\ SegmentedWithRoom
    /\ SegmentationWordLength = 2
    /\ Len(call.input) = 4
    /\ DOMAIN words # {}
    /\ ~call.ret.threw
    /\ LET steps == StepsOfTheCall
       IN  \E n \in DOMAIN steps :
              steps[n].j = 3 /\ steps[n].W.circularIndex = 0

\* The buffer after the row j = 0 of the wordSegmentation call made: cell i - 1
\* holds the part input[0..i) alone.
FirstRow ==
    PartLoop(NewCompositions(call.input, call.options), call.input, 0, 1,
             SegmentationWordLength,
             [t \in Seq(Alnum \cup Apostrophes) |->
                lookup(t, TOP, SegmentEditDistance(call.options),
                       [NoOptions EXCEPT
                           !.ignoreToken = call.options.ignoreToken])]).compositions

\* The part of cell i of the first row is one lookup finds nothing for.
UnknownInFirstRow(row, i) ==
    /\ row[i].correctedString = row[i].segmentedString
    /\ Near(row[i].segmentedString, SegmentEditDistance(call.options)) = {}

\* log10(10 / (N * 10^length)) as a sum of one term: 10^(1 - length) / N.
LogOfUnknownAsSpecified(length) ==
    [product |-> 1, tens |-> 1 - length, parts |-> 1]

\* C26: for a part that lookup cannot correct, topProbabilityLog is
\* log10(10 / (N * 10^|part|)); so of two unknown parts of lengths l1 < l2 the
\* longer has the strictly smaller probability.
C26_UnknownPartProbabilityFallsWithLength ==
    SegmentedWithRoom =>
        LET row == FirstRow
        IN  \A i \in DOMAIN row :
               UnknownInFirstRow(row, i) =>
                  /\ row[i].probabilityLogSum
                        = LogOfUnknownAsSpecified(Len(row[i].segmentedString))
                  /\ \A h \in DOMAIN row :
                        (/\ UnknownInFirstRow(row, h)
                         /\ Len(row[h].segmentedString) < Len(row[i].segmentedString))
                            => LogLess(row[i].probabilityLogSum,
                                       row[h].probabilityLogSum)

\* With the one word b and maxEditDistance = 0, the input aa came back in one
\* part with the probability 10^3 / N, above the 10^2 / N of the part a.
C26_Witness ==
    /\ SegmentedWithRoom
    /\ DOMAIN words = {<<"b">>}
    /\ call.options.maxEditDistance = 0
    /\ call.input = <<"a", "a">>
    /\ SegmentationWordLength = 2
    /\ ~call.ret.threw
    /\ call.ret.value.segmentedString = <<"a", "a">>
    /\ call.ret.value.probabilityLogSum = [product |-> 1, tens |-> 3, parts |-> 1]
    /\ FirstRow[1].probabilityLogSum = [product |-> 1, tens |-> 2, parts |-> 1]

\* The query made, made again in this state, gives what it gave.
SameAnswerAgain ==
    CASE call.op = "lookup" ->
            lookup(call.input, call.verbosity, call.maxEditDistance, call.options)
                = call.ret
      [] call.op = "lookupCompound" ->
            lookupCompound(call.input, call.maxEditDistance, call.options)
                = call.made
      [] call.op = "wordSegmentation" ->
            wordSegmentation(call.input, call.options) = call.ret
      [] OTHER -> TRUE

LookedUpWithinTheBound ==
    /\ call.op = "lookup"
    /\ call.maxEditDistance <= maxDictionaryEditDistance
    /\ ~call.threw

\* C28: for every index, input, verbosity, k <= M and option setting, the list
\* returned by lookup contains no term more than once.
C28_NoTermReturnedTwice ==
    LookedUpWithinTheBound =>
        \A i \in DOMAIN call.ret : \A h \in DOMAIN call.ret :
            call.ret[i].term = call.ret[h].term => i = h

\* Without options and with ALL, the one-letter word a came back twice for the
\* input ab: at distance 1 through the candidate a and at distance 2 through
\* the empty candidate.
C28_Witness ==
    /\ LookedUpWithinTheBound
    /\ call.options = NoOptions
    /\ call.verbosity = ALL
    /\ call.input = <<"a", "b">>
    /\ DOMAIN words = {<<"a">>}
    /\ \E i \in DOMAIN call.ret : \E h \in DOMAIN call.ret :
          /\ call.ret[i] = SuggestItem(<<"a">>, 1, 1)
          /\ call.ret[h] = SuggestItem(<<"a">>, 2, 1)

\* With ALL and an ignoreToken that matches it, an input that is a word came
\* back twice at distance 0: with its count and with the count 1.
C28_IgnoredWordTwice ==
    /\ LookedUpWithinTheBound
    /\ call.verbosity = ALL
    /\ call.options.ignoreToken # {}
    /\ ~call.options.transferCasing
    /\ Has(words, call.input)
    /\ \E i \in DOMAIN call.ret : \E h \in DOMAIN call.ret :
          /\ i # h
          /\ call.ret[i].term = call.input /\ call.ret[i].distance = 0
          /\ call.ret[h].term = call.input /\ call.ret[h].distance = 0

\* lookupCompound was called without options on an input every token of which
\* is a term of Words.
CorrectInput ==
    /\ call.op = "lookupCompound"
    /\ call.options = NoCompoundOptions
    /\ \A i \in DOMAIN Tokens : Has(words, Tokens[i])

C9_DistanceIsBoundedOSA ==
    call.op = "distance" =>
        /\ call.ret = (IF OSA(call.string1, call.string2) <= call.maxDistance
                       THEN OSA(call.string1, call.string2) ELSE -1)
        /\ (/\ call.string1 = <<"c", "a">>
            /\ call.string2 = <<"a", "b", "c">>
            /\ call.maxDistance >= 3) => call.ret = 3

\* distance("ca", "abc", 3) returned 3 on an instance whose previous-diagonal
\* buffer an earlier call had written.
C9_Witness ==
    /\ call.op = "distance"
    /\ call.string1 = <<"c", "a">>
    /\ call.string2 = <<"a", "b", "c">>
    /\ call.maxDistance = 3
    /\ call.ret = 3
    /\ \E j \in DOMAIN call.edBefore.basePrevChar1Costs :
          call.edBefore.basePrevChar1Costs[j] # Undef

\* C10: distance(a, b, k) is -1 or in 0..k; distance(a, a, k) = 0; and
\* distance(a, b, k) = distance(b, a, k), the swapped call made on the instance
\* as it was before the call or as the call left it.
C10_RangeIdentitySymmetry ==
    call.op = "distance" =>
        /\ call.ret = -1 \/ call.ret \in 0..call.maxDistance
        /\ call.string1 = call.string2 => call.ret = 0
        /\ call.ret = distance(call.edBefore, call.string2, call.string1,
                               call.maxDistance).ret
        /\ call.ret = distance(distanceComparer, call.string2, call.string1,
                               call.maxDistance).ret

\* A banded run (maxDistance below the longer residue) on strings of different
\* lengths with the longer one first returned a positive distance.
C10_Witness ==
    /\ call.op = "distance"
    /\ Len(call.string1) > Len(call.string2)
    /\ Len(call.string2) > 1
    /\ call.maxDistance < Len(call.string1)
    /\ call.ret > 0

\* C6: a createDictionaryEntry call returns true iff its term was not a key of
\* Words before the call and is one after it; Words never loses a key, so no
\* term sees two calls return true, and a call that stages a below-threshold
\* count or updates an existing word returns false.
C6_TrueIffNewlyInWords ==
    [][entries' = entries + 1 =>
        /\ call'.ret <=> (~Has(words, call'.key) /\ Has(words', call'.key))
        /\ DOMAIN words \subseteq DOMAIN words'
        /\ (Has(belowThresholdWords', call'.key) \/ Has(words, call'.key))
              => call'.ret = FALSE]_vars

\* A second call on a term returned true: the first had staged it below the
\* threshold, the second promoted it.
C6_Witness ==
    /\ call.op = "createDictionaryEntry"
    /\ entries = 2
    /\ ~call.fresh
    /\ call.ret = TRUE
    /\ Has(words, call.key)

\* C7: for a term t new to the index and counts c1, c2 > 0 with c1 >=
\* countThreshold, createDictionaryEntry(t, c1) then createDictionaryEntry(t, c2)
\* leave Words[t] = min(c1 + c2, MAX_SAFE_INTEGER), and the second call leaves
\* the number of Words entries as the first left it.
C7_CountsSumSaturating ==
    [][(/\ call.op = "createDictionaryEntry"
        /\ entries' = entries + 1
        /\ call'.key = call.key
        /\ call.fresh
        /\ call.count > 0
        /\ call'.count > 0
        /\ call.count >= countThreshold) =>
        /\ Has(words', call.key)
        /\ words'[call.key] = (IF call.count >= MAX_SAFE_INTEGER - call'.count
                               THEN MAX_SAFE_INTEGER
                               ELSE call.count + call'.count)
        /\ words'[call.key] <= MAX_SAFE_INTEGER
        /\ Cardinality(DOMAIN words') = Cardinality(DOMAIN words)]_vars

\* The second count took the sum past MAX_SAFE_INTEGER and the count sits at it.
C7_Witness ==
    /\ call.op = "createDictionaryEntry"
    /\ entries = 2
    /\ call.count = 2
    /\ ~call.fresh
    /\ Has(words, call.key)
    /\ words[call.key] = MAX_SAFE_INTEGER
    /\ countThreshold = 2

\* The characters of p at the positions of K, in order.
RECURSIVE PickFrom(_, _, _)
PickFrom(p, K, i) ==
    IF i > Len(p) THEN <<>>
    ELSE (IF i \in K THEN <<p[i]>> ELSE <<>>) \o PickFrom(p, K, i + 1)

\* Every string obtainable by deleting at most m characters from p.
DeletionsUpTo(p, m) ==
    {PickFrom(p, K, 1) : K \in {J \in SUBSET (1..Len(p)) : Len(p) - Cardinality(J) <= m}}

\* The terms filed under the delete variant d.
Bucket(d) == IF Has(deletes, d) THEN {deletes[d][i] : i \in DOMAIN deletes[d]} ELSE {}

\* C8: for every term t of Words and every string d obtainable by deleting at
\* most maxEditDistance characters from prefix(t, prefixLength) (the prefix
\* itself and, where that many deletions reach it, the empty string included),
\* d is a key of Deletes and its bucket contains t.
C8_EveryDeleteVariantFiled ==
    \A t \in DOMAIN words :
        \A d \in DeletionsUpTo(Prefix(t, prefixLength), maxDictionaryEditDistance) :
            Has(deletes, d) /\ t \in Bucket(d)

\* C8 as amended: the same for every d but the empty string; the empty string
\* is a key whose bucket contains t when t has at most maxEditDistance
\* characters (or the prefix itself is empty).
C8_DeleteVariantsFiled ==
    \A t \in DOMAIN words :
        \A d \in DeletionsUpTo(Prefix(t, prefixLength), maxDictionaryEditDistance) :
            (d # <<>> \/ Len(t) <= maxDictionaryEditDistance \/ prefixLength = 0)
                => Has(deletes, d) /\ t \in Bucket(d)

\* A term longer than prefixLength = maxEditDistance = 2: its prefix is cut,
\* a one-character variant of the prefix holds it, the empty string does not.
C8_Witness ==
    /\ maxDictionaryEditDistance = 2
    /\ prefixLength = 2
    /\ \E t \in DOMAIN words :
          /\ Len(t) > prefixLength
          /\ t \notin Bucket(<<>>)
          /\ \E d \in DeletionsUpTo(Prefix(t, prefixLength), 1) :
                Len(d) = 1 /\ t \in Bucket(d)

\* Every term of Words is filed only under strings that at most
\* maxEditDistance deletions give from its prefix, the empty key of a term of
\* at most maxEditDistance characters aside.
FiledWithinTheBound ==
    \A d \in DOMAIN deletes :
        \A t \in Bucket(d) \cap DOMAIN words :
            (d # <<>> \/ Len(t) > maxDictionaryEditDistance) =>
                /\ d \in DeletionsUpTo(Prefix(t, prefixLength), maxDictionaryEditDistance)
                /\ Len(Prefix(t, prefixLength)) - Len(d) <= maxDictionaryEditDistance

\* C23: for every configured maxEditDistance >= 0, 0 included, every term t of
\* Words and every key d of Deletes whose bucket contains t, d comes from
\* prefix(t, prefixLength) by deleting at most maxEditDistance characters (the
\* empty key, filed when |t| <= maxEditDistance, aside).
C23_DeletesBoundedByMaxEditDistance == FiledWithinTheBound

\* With maxEditDistance = 0 a two-letter term is filed under a one-letter key.
C23_Witness ==
    /\ maxDictionaryEditDistance = 0
    /\ Has(words, <<"a", "b">>)
    /\ Has(deletes, <<"a">>)
    /\ <<"a", "b">> \in Bucket(<<"a">>)

\* The same bound for the indexes built with maxEditDistance >= 1.
C23_BoundedWhenPositive == maxDictionaryEditDistance > 0 => FiledWithinTheBound

\* A wordSegmentation call with room that returned a composition.
SegmentationReturned ==
    /\ SegmentedWithRoom
    /\ ~call.ret.threw
    /\ call.ret.value # Undefined

\* C30: wordSegmentation only inserts or removes whitespace in
\* segmentedString: for a non-empty input and maxSegmentationWordLength >= 1
\* the returned segmentedString without its whitespace is the input without
\* its whitespace, and with maxEditDistance = 0 and no ignoreToken
\* correctedString equals segmentedString.
C30_SegmentationChangesWhitespaceOnly ==
    SegmentedWithRoom =>
        /\ SegmentationReturned
        /\ SelectSeq(call.ret.value.segmentedString, NotWhitespace)
              = SelectSeq(call.input, NotWhitespace)
        /\ (SegmentEditDistance(call.options) = 0 /\ call.options.ignoreToken = {})
              => call.ret.value.correctedString = call.ret.value.segmentedString

\* A space was inserted into an input longer than the longest part and a
\* letter was corrected: the segmented string differs from the input and
\* from the corrected string.
C30_Witness ==
    /\ SegmentationReturned
    /\ Len(call.input) > SegmentationWordLength
    /\ call.ret.value.segmentedString # call.input
    /\ call.ret.value.correctedString # call.ret.value.segmentedString
    /\ \E x \in DOMAIN call.ret.value.segmentedString :
          call.ret.value.segmentedString[x] = " "

\* With maxEditDistance = 0 a space was inserted and the two strings are the
\* same.
C30_WitnessAtZero ==
    /\ SegmentationReturned
    /\ SegmentEditDistance(call.options) = 0
    /\ Len(call.ret.value.segmentedString) > Len(call.input)
    /\ call.ret.value.correctedString = call.ret.value.segmentedString

====
